---- MODULE Spec2Model ----
(***************************************************************************)
(* gha-tui: the session controller (internal/tui/app.go, App.Update), its  *)
(* sub-views, the multi-attempt log merge (App.fetchLogs), the bulk delete *)
(* executor (deleteIDsConcurrently) and the log cache (internal/cache).    *)
(*                                                                         *)
(* The specifications of the module:                                       *)
(*   Spec       the session controller in the Runs view: dialogs, the      *)
(*              filter form, the search and info overlays, the run-list    *)
(*              refresher and the jobs poller                              *)
(*   LogSpec    the session controller around the log overlay: attempts,   *)
(*              single-job logs and log tailing                            *)
(*   MergeSpec  one fetchLogs task: the per-attempt fetches and the merge; *)
(*              MergeLive adds the fairness of the goroutines              *)
(*   BulkSpec   one call of deleteIDsConcurrently and the status shown for *)
(*              its result; BulkLive adds the fairness of the scheduler    *)
(*   CacheSpec  the cache directory under log fetch tasks, Evict and time  *)
(*   NavSpec    the session controller from an opened run: the overlays    *)
(*              and the tab keys                                           *)
(*   TwinSpec   two copies of one session state given the same message     *)
(*   ListSpec   the session controller on the run list: paging, the       *)
(*              multi-selection, the dialogs and the filter form           *)
(*   TargetSpec the session controller on the workflows and caches tabs:   *)
(*              the dialogs opened on their lists                          *)
(*   SearchSpec one call of search.Engine.SearchWithFilter                 *)
(*   OpsSpec    one call of ops.BulkDeleteRuns under its context           *)
(*                                                                         *)
(* The controller is a pure function Update(a, msg) of the App value and   *)
(* one message, as in the source; every command it returns runs in the     *)
(* background and posts one message later, in any order.  Spec and LogSpec *)
(* differ in the keys pressed and the results delivered; the properties    *)
(* apply Update to every key of AllKeys and to every result in flight in   *)
(* each state reached.                                                     *)
(*                                                                         *)
(* Outside the model: window resizes, the help viewport, the metrics       *)
(* dashboard and the retention fetch, the text typed into inputs, and the  *)
(* keys shift+tab, 3 and 5 of the main switch.                             *)
(***************************************************************************)
EXTENDS Integers, Sequences, FiniteSets, Bags, TLC

(***************************************************************************)
(* Bounds of the model.                                                    *)
(***************************************************************************)
\* the runs the server lists: run 1 is in progress, run 2 is completed
NumRuns == 2

\* the jobs of every run
NumJobs == 2

\* the highest run_attempt of a run the controller lists
MaxAttempt == 2

\* the highest run_attempt of the run a fetchLogs task merges
MaxMergeAttempt == 3

\* the last page of the run listing
MaxPage == 2

\* the most calls of Update in one behaviour
MaxSteps == 8

\* the most commands in flight at once
MaxPending == 6

\* the most copies of one command in flight at once
MaxDup == 1

MaxBulkIds == 4

\* the background log fetches of one session of the cache model
NumTasks == 2

\* the last instant of the clock of the cache model
MaxClock == 3

\* lc.ttl, in ticks of the clock
TTL == 2

\* lc.maxSize, in the units of SizeOf
MaxSize == 5

\* the calls of Evict in one session of the cache model
MaxEvicts == 1

(***************************************************************************)
(* Data: job names and log contents.  "ab" and "cd" have the same length   *)
(* and differ; "s" is a short stub; "xyz" is the longest.                  *)
(***************************************************************************)
JobNames == {"build", "build (arm)"}

Contents == {"s", "ab", "cd", "xyz"}

\* map[string]string: a function from a set of job names to contents
LogMaps == UNION {[D -> Contents] : D \in SUBSET JobNames}

NoLogs == [k \in {} |-> ""]

\* no message yet
NoMsg == [type |-> "none"]

\* strings.Contains(s, sub) on the job names of the model
Contains(s, sub) == s = sub \/ (s \in {"build (arm)", "build (x86)"} /\ sub = "build")

\* model.Run of the listing: Status and RunAttempt
RunCompleted(r) == r = 2

RunAttemptOf(r) == MaxAttempt

\* model.Job: ID, RunID, RunAttempt, Name, Status == "completed"
JobIDOf(r, att, k) == ((r - 1) * MaxAttempt + (att - 1)) * NumJobs + k

JobNameOf(k) == IF k = 1 THEN "build" ELSE "build (arm)"

Job(r, att, k, done) ==
  [id |-> JobIDOf(r, att, k), run |-> r, att |-> att, name |-> JobNameOf(k),
   done |-> done]

\* a nil *model.Job, a nil *model.Run
NoJob == [id |-> 0, run |-> 0, att |-> 0, name |-> "", done |-> FALSE]

NoRun == 0

JobRunOf(id) == ((id - 1) \div (MaxAttempt * NumJobs)) + 1

JobAttOf(id) == (((id - 1) \div NumJobs) % MaxAttempt) + 1

JobIdxOf(id) == ((id - 1) % NumJobs) + 1

\* the text of one job's log, tagged with the run and attempt it was
\* produced by; the text shown for a running job; the placeholder texts
LogText(r, att, name) == [kind |-> "log", run |-> r, att |-> att, job |-> name]

StepProgress(job) == [kind |-> "progress", run |-> job.run, att |-> job.att, job |-> job.name]

NoLogText == [kind |-> "nolog", run |-> 0, att |-> 0, job |-> ""]

ErrorText == [kind |-> "error", run |-> 0, att |-> 0, job |-> ""]

EmptyText == [kind |-> "", run |-> 0, att |-> 0, job |-> ""]

\* map[string]string of the controller: job name -> LogText
NoRunLogs == [k \in {} |-> EmptyText]

(***************************************************************************)
(* The state: the App value, the commands in flight, and the fetchLogs     *)
(* task of MergeSpec.                                                      *)
(***************************************************************************)
VARIABLES
  app,         \* the App value Bubble Tea holds between two calls of Update
  pending,     \* the commands returned by Update that have not posted yet
  quit,        \* Update returned tea.Quit
  steps,       \* the calls of Update so far that changed the state
  mAttempt,    \* fetchLogs: attempt := run.RunAttempt
  results,     \* fetchLogs: results []attemptResult, one slot per attempt
  fetchPc,     \* fetchLogs: each attempt goroutine, "run" or "done"
  mergeIdx,    \* fetchLogs: position of the merge loop over results
  merged,      \* fetchLogs: merged map[string]string
  lastErr,     \* fetchLogs: lastErr (TRUE when set)
  mergeMsg,    \* fetchLogs: the LogsLoadedMsg returned, NoMsg before
  bulk,        \* deleteIDsConcurrently: the workers, the semaphore, the result
  cache,       \* LogCache: the files under the cache directory and the clock
  twin,        \* two copies of one session state and what Update returned for each
  engine,      \* search.Engine: one call of SearchWithFilter
  ops          \* ops.BulkDeleteRuns: one call and the context it runs under

appVars == <<app, pending, quit, steps>>

mergeVars == <<mAttempt, results, fetchPc, mergeIdx, merged, lastErr, mergeMsg>>

sideVars == <<bulk, cache, twin, engine, ops>>

vars == <<app, pending, quit, steps, mAttempt, results, fetchPc, mergeIdx, merged, lastErr, mergeMsg,
          bulk, cache, twin, engine, ops>>

(***************************************************************************)
(* The sub-views as constructed.                                           *)
(***************************************************************************)
\* runs.New(): an empty list, nothing selected, loading
NewRunsView ==
  [runs |-> <<>>, index |-> 0, selected |-> {}, filterState |-> "unfiltered",
   loading |-> TRUE]

\* details.New()
NewDetailsView == [run |-> NoRun, jobs |-> <<>>, cursor |-> 0, loading |-> FALSE]

\* logview.New()
NewLogView ==
  [jobName |-> "", content |-> EmptyText, loading |-> FALSE, searching |-> FALSE,
   tailing |-> FALSE]

\* infoview.New()
NewInfoView == [run |-> NoRun, job |-> NoJob, showingJob |-> FALSE, jobs |-> <<>>]

\* searchview.New(): ModeInput is the zero Mode
NewSearchView ==
  [active |-> FALSE, mode |-> "input", query |-> "", results |-> <<>>,
   hasResults |-> FALSE, cursor |-> 0, loading |-> FALSE]

\* the zero confirm.Model
NoConfirmDialog == [active |-> FALSE, action |-> "", data |-> 0, selected |-> FALSE]

\* confirm.New(title, message, action, data)
NewConfirmDialog(action, data) ==
  [active |-> TRUE, action |-> action, data |-> data, selected |-> FALSE]

\* the zero filteroverlay.Model; filteroverlay.New(workflows, current)
NoFilterOverlay == [active |-> FALSE, filter |-> FALSE]

NewFilterOverlay(current) == [active |-> TRUE, filter |-> current]

\* workflows.New(), cacheview.New(), runnersview.New(): a list view
NewListView == [items |-> 0, filterState |-> "unfiltered", selected |-> {}]

\* NewApp(client, owner, repo, logCache)
NewApp ==
  [currentView |-> "ViewRuns",
   focusedPane |-> "PaneLeft",
   status |-> "Loading runs...",
   currentRunLogs |-> NoRunLogs,
   currentRunID |-> 0,
   runsPage |-> 0,
   runsHasMore |-> FALSE,
   runsLoading |-> FALSE,
   autoRefreshRunID |-> 0,
   tailingJobID |-> 0,
   tailingJobName |-> "",
   viewingJob |-> NoJob,
   viewingAttempt |-> 0,
   showHelp |-> FALSE,
   logFullScreen |-> FALSE,
   infoFullScreen |-> FALSE,
   infoStartedRefresh |-> FALSE,
   cameFromSearch |-> FALSE,
   runsFilter |-> FALSE,
   runsView |-> NewRunsView,
   detailsView |-> NewDetailsView,
   logView |-> NewLogView,
   infoView |-> NewInfoView,
   searchView |-> NewSearchView,
   workflowsView |-> NewListView,
   cacheView |-> NewListView,
   runnersView |-> NewListView,
   confirmDialog |-> NoConfirmDialog,
   filterOverlay |-> NoFilterOverlay]

(***************************************************************************)
(* Commands.  A command is a record; c names the function that built it.   *)
(***************************************************************************)
Cmd(c) == [c |-> c, run |-> 0, att |-> 0, job |-> 0, page |-> 0, arg |-> ""]

fetchRuns == Cmd("fetchRuns")

refreshCurrentRuns == Cmd("refreshCurrentRuns")

fetchRunsPage(page) == [Cmd("fetchRunsPage") EXCEPT !.page = page]

fetchJobs(runID) == [Cmd("fetchJobs") EXCEPT !.run = runID]

fetchJobsForAttempt(runID, attempt) ==
  [Cmd("fetchJobs") EXCEPT !.run = runID, !.att = attempt]

\* fetchLogs(run): att 0 stands for the merge of all attempts
fetchLogs(run) == [Cmd("fetchLogs") EXCEPT !.run = run]

fetchLogsForAttempt(run, attempt) ==
  [Cmd("fetchLogs") EXCEPT !.run = run, !.att = attempt]

fetchRun(runID) == [Cmd("fetchRun") EXCEPT !.run = runID]

fetchJobLog(jobID) == [Cmd("fetchJobLog") EXCEPT !.job = jobID]

checkJobStatus(jobID) == [Cmd("checkJobStatus") EXCEPT !.job = jobID]

scheduleRunsRefresh == Cmd("scheduleRunsRefresh")

scheduleJobsRefresh(runID) == [Cmd("scheduleJobsRefresh") EXCEPT !.run = runID]

scheduleLogRefresh(jobID) == [Cmd("scheduleLogRefresh") EXCEPT !.job = jobID]

fetchWorkflows == Cmd("fetchWorkflows")

fetchWorkflowStats == Cmd("fetchWorkflowStats")

fetchRetention == Cmd("fetchRetention")

fetchDashboardData == Cmd("fetchDashboardData")

fetchActionsCaches == Cmd("fetchActionsCaches")

fetchRunners == Cmd("fetchRunners")

\* doRerunAll, doRerunFailed, doDeleteRun, doCancelRun, doForceCancelRun,
\* doEnableWorkflow, doDisableWorkflow, doBulkDeleteRuns, doBulkDeleteByIDs,
\* deleteSelectedCaches, deleteActionsCache, deleteAllActionsCaches
doAction(action, target) == [Cmd("doAction") EXCEPT !.arg = action, !.run = target]

\* executeSearch(query): the logs are captured when the command is built
executeSearch(logs) ==
  [Cmd("executeSearch") EXCEPT
     !.arg = IF "build" \in DOMAIN logs
               THEN (IF "build (arm)" \in DOMAIN logs THEN "both" ELSE "build")
               ELSE "build (arm)"]

\* the command of confirm.Model.Update: func() tea.Msg { return ResultMsg{...} }
confirmResult(confirmed, action, data) ==
  [Cmd("confirmResult") EXCEPT !.arg = action, !.run = data,
                               !.att = IF confirmed THEN 1 ELSE 0]

\* the command of filteroverlay.Model.emitResult
filterResult(applied, filter) ==
  [Cmd("filterResult") EXCEPT !.att = IF applied THEN 1 ELSE 0,
                              !.page = IF filter THEN 1 ELSE 0]

\* the command of runs.Model.Update at the bottom of the list
needNextPage == Cmd("needNextPage")

\* what Update returns: the new App value, the batch of commands, tea.Quit
Ret(a, cmds) == [a |-> a, cmds |-> cmds, quit |-> FALSE, ret |-> FALSE]

\* the status line before an action result is shown
NoStatus == [format |-> "", Action |-> <<>>, Err |-> 0]

\* no bulk delete running: no ids, no worker, nothing returned
NoBulk ==
  [n |-> 0, action |-> "", pc |-> <<>>, calls |-> <<>>, res |-> <<>>, sem |-> 0,
   deleted |-> 0, lastErr |-> 0, msg |-> NoMsg, status |-> NoStatus]

(***************************************************************************)
(* The log cache directory, src/internal/cache/logs.go.  An entry is the   *)
(* directory run-<id>-attempt-<n>; a file is named by its entry and its    *)
(* name in the archive.  Only the root-level job logs of an archive and    *)
(* meta.json are modelled, no step files in subdirectories.  Time is the   *)
(* clock now; a directory's modification time is set when a file is        *)
(* created in it or removed from it, a file's when it is written.          *)
(***************************************************************************)
\* runDir(runID, attempt) for the attempts of run 1
Entries == {<<1, 1>>, <<1, 2>>}

\* the files of a log archive, in the order of zr.File
LogSeq == <<"0_build.txt", "1_build (arm).txt">>

LogNames == {LogSeq[i] : i \in 1..Len(LogSeq)}

\* filepath.Join(dir, "meta.json")
MetaName == "meta.json"

FileIds == Entries \X (LogNames \cup {MetaName})

\* parseRootLogName: "0_build.txt" -> "build"
parseRootLogName(name) ==
  CASE name = "0_build.txt" -> "build"
    [] name = "1_build (arm).txt" -> "build (arm)"

\* the content of a file of the archive, and of meta.json
ContentOf(name) ==
  CASE name = "0_build.txt" -> "build log"
    [] name = "1_build (arm).txt" -> "arm log"
    [] name = MetaName -> "meta"

\* info.Size() of a file with this content; "" is a file created and not
\* written, "part" what a failed io.Copy left
SizeOf(data) ==
  CASE data = "build log" -> 2
    [] data \in {"arm log", "meta", "part"} -> 1
    [] OTHER -> 0

\* a path with no file
NoFile == [mtime |-> -1, data |-> "none"]

\* a background task that was not started; readable is whether os.ReadDir of
\* the entry directory succeeds for the task, cerr the cache error its check met
NoTask ==
  [pc |-> "idle", e |-> <<0, 0>>, idx |-> 0, hit |-> FALSE, logs |-> NoLogs, err |-> FALSE,
   readable |-> TRUE, cerr |-> ""]

\* NewLogCache on an empty directory, at time 0
NoCache ==
  [now |-> 0,
   dirs |-> [e \in Entries |-> -1],
   files |-> [f \in FileIds |-> NoFile],
   tasks |-> [t \in 1..NumTasks |-> NoTask],
   stored |-> [e \in Entries |-> FALSE],
   evicts |-> 0,
   swept |-> [ttl |-> 0, cap |-> 0, writers |-> 0]]

\* no copies of a session: the controller as constructed, no call of Update
NoTwin ==
  [a |-> NewApp, msg |-> NoMsg, called |-> [i \in 1..2 |-> FALSE],
   r |-> [i \in 1..2 |-> [a |-> NewApp, cmds |-> <<>>]]]

\* no call of SearchWithFilter
NoEngine == [pc |-> "idle"]

\* no call of BulkDeleteRuns
NoOps == [pc |-> "idle"]

SideIdle ==
  bulk = NoBulk /\ cache = NoCache /\ twin = NoTwin /\ engine = NoEngine /\ ops = NoOps

(***************************************************************************)
(* Messages.  A message is a record; type names the Go type.               *)
(***************************************************************************)
KeyMsg(k) == [type |-> "KeyMsg", key |-> k]

IsKey(msg) == msg.type = "KeyMsg"

\* msg is the key k
KeyIs(msg, k) == msg.type = "KeyMsg" /\ msg.key = k

\* the keys of the model; "z" stands for any other printable key
AllKeys ==
  {"q", "?", "tab", "1", "2", "4", "S", "/", "enter", "right", "left", "r",
   "R", "d", "a", "i", "x", "esc", "backspace", "y", "n", "j", "k", "f", " ",
   "c", "z", "F", "C", "X", "e", "D", "Y", "N"}

\* keys a text input takes as text
Printable ==
  {"q", "?", "1", "2", "4", "S", "/", "r", "R", "d", "a", "i", "x", "y", "n",
   "j", "k", "f", " ", "c", "z", "F", "C", "X", "e", "D", "Y", "N"}

(***************************************************************************)
(* bubbles/list as the list views use it: filter key "f", esc, enter.      *)
(***************************************************************************)
\* list.Model.Update for a key; n is len(Items())
ListFilterKey(fs, k, n) ==
  CASE fs = "filtering" /\ k = "esc" -> "unfiltered"
    [] fs = "filtering" /\ k \in {"enter", "tab"} -> "unfiltered"
    [] fs = "filtering" /\ k \in Printable -> "filteringText"
    [] fs = "filteringText" /\ k = "esc" -> "unfiltered"
    [] fs = "filteringText" /\ k \in {"enter", "tab"} ->
         IF n = 0 THEN "filteringText" ELSE "applied"
    [] fs = "filteringText" /\ k = "backspace" -> "filtering"
    [] fs = "applied" /\ k = "esc" -> "unfiltered"
    [] fs \in {"unfiltered", "applied"} /\ k = "f" /\ n > 0 -> "filtering"
    [] OTHER -> fs

IsFilteringState(fs) == fs \in {"filtering", "filteringText"}

\* list.Model.Update: the cursor after a key
ListIndexKey(fs, idx, k, n) ==
  IF IsFilteringState(fs) THEN idx
  ELSE CASE k = "j" /\ idx < n - 1 -> idx + 1
         [] k = "k" /\ idx > 0 -> idx - 1
         [] k = "f" /\ n > 0 -> 0
         [] OTHER -> idx

(***************************************************************************)
(* runs.Model, src/unnamed/part_002.                                       *)
(***************************************************************************)
runsIsFiltering(m) == IsFilteringState(m.filterState)

runsHasActiveFilter(m) == m.filterState # "unfiltered"

\* SelectedRun(): the run under the cursor, NoRun when the list is empty
SelectedRun(m) ==
  IF m.index >= 0 /\ m.index < Len(m.runs) THEN m.runs[m.index + 1] ELSE NoRun

SelectionCount(m) == Cardinality(m.selected)

\* RunByID(id)
RunByID(m, id) ==
  IF \E i \in 1..Len(m.runs) : m.runs[i] = id THEN id ELSE NoRun

\* a load that keeps the multi-selection and the cursor
runsKeepSelection(m, runs) == [m EXCEPT !.loading = FALSE, !.runs = runs]

\* m.runs = msg.Runs; delete(m.selected, k) for every k; m.list.SetItems(items);
\* m.list.Select(0)
runsSetRuns(m, runs) ==
  [m EXCEPT !.loading = FALSE, !.runs = runs, !.selected = {}, !.index = 0]

\* runs.Model.Update
runsUpdate(m, msg) ==
  CASE msg.type \in {"RunsLoadedMsg", "RunsPageMsg"} ->
         IF msg.Err
           THEN [m |-> [m EXCEPT !.loading = FALSE], cmds |-> <<>>]
           ELSE [m |-> runsSetRuns(m, msg.Runs), cmds |-> <<>>]
    [] msg.type = "KeyMsg" ->
         IF /\ ~runsIsFiltering(m)
            /\ msg.key = "j"
            /\ Len(m.runs) > 0
            /\ m.index >= Len(m.runs) - 1
           THEN [m |-> m, cmds |-> <<needNextPage>>]
         ELSE IF msg.key = " " /\ ~runsIsFiltering(m)
           THEN LET id == SelectedRun(m) IN
                [m |-> IF id = NoRun THEN m
                       ELSE IF id \in m.selected
                         THEN [m EXCEPT !.selected = @ \ {id}]
                         ELSE [m EXCEPT !.selected = @ \cup {id}],
                 cmds |-> <<>>]
         ELSE [m |-> [m EXCEPT
                        !.filterState = ListFilterKey(@, msg.key, Len(m.runs)),
                        !.index = ListIndexKey(m.filterState, @, msg.key, Len(m.runs))],
               cmds |-> <<>>]
    [] OTHER -> [m |-> m, cmds |-> <<>>]

(***************************************************************************)
(* details.Model, src/internal/tui/details/view.go.                        *)
(***************************************************************************)
\* SetRun(run)
detailsSetRun(m, run) == [m EXCEPT !.run = run, !.loading = TRUE, !.cursor = 0]

\* SelectedJob(): the job under the cursor, NoJob when there is none
SelectedJob(m) ==
  IF m.cursor >= 0 /\ m.cursor < Len(m.jobs) THEN m.jobs[m.cursor + 1] ELSE NoJob

\* details.Model.Update; the jobs of a message are already ordered by name
detailsUpdate(m, msg) ==
  CASE msg.type = "JobsLoadedMsg" ->
         IF msg.Err
           THEN [m EXCEPT !.loading = FALSE]
           ELSE [m EXCEPT !.loading = FALSE, !.jobs = msg.Jobs, !.cursor = 0]
    [] msg.type = "KeyMsg" ->
         CASE msg.key = "j" /\ m.cursor < Len(m.jobs) - 1 ->
                [m EXCEPT !.cursor = @ + 1]
           [] msg.key = "k" /\ m.cursor > 0 -> [m EXCEPT !.cursor = @ - 1]
           [] OTHER -> m
    [] OTHER -> m

(***************************************************************************)
(* logview.Model, src/unnamed/part_006.                                    *)
(***************************************************************************)
logSetContent(m, jobName, content) ==
  [m EXCEPT !.jobName = jobName, !.content = content, !.loading = FALSE]

logSetLoading(m) == [m EXCEPT !.loading = TRUE]

logUpdateContent(m, content) == [m EXCEPT !.content = content]

logSetTailing(m, tailing) == [m EXCEPT !.tailing = tailing]

\* logview.Model.Update
logUpdate(m, msg) ==
  IF msg.type # "KeyMsg" THEN m
  ELSE IF m.searching
    THEN (IF msg.key \in {"enter", "esc"} THEN [m EXCEPT !.searching = FALSE] ELSE m)
    ELSE (IF msg.key = "/" THEN [m EXCEPT !.searching = TRUE] ELSE m)

(***************************************************************************)
(* infoview.Model, src/internal/tui/infoview/view.go.                      *)
(***************************************************************************)
infoSetRun(m, run) == [m EXCEPT !.run = run, !.showingJob = FALSE]

infoSetJob(m, job) == [m EXCEPT !.job = job, !.showingJob = TRUE]

infoSetJobs(m, jobs) == [m EXCEPT !.jobs = jobs]

(***************************************************************************)
(* searchview.Model, src/internal/tui/searchview/view.go.                  *)
(***************************************************************************)
searchActivate(m) == [m EXCEPT !.active = TRUE, !.mode = "input"]

searchDeactivate(m) == [m EXCEPT !.active = FALSE]

searchActivateResults(m) == [m EXCEPT !.active = TRUE, !.mode = "results"]

\* SelectedMatch(): the job name of the match under the cursor, "" for nil
SelectedMatch(m) ==
  IF ~m.hasResults \/ m.cursor >= Len(m.results) THEN "" ELSE m.results[m.cursor + 1]

\* searchview.Model.Update
searchUpdate(m, msg) ==
  CASE msg.type = "SearchDoneMsg" ->
         [m EXCEPT !.loading = FALSE, !.results = msg.Results,
                   !.hasResults = TRUE, !.cursor = 0, !.mode = "results"]
    [] msg.type = "KeyMsg" ->
         IF m.mode = "input"
           THEN CASE msg.key = "enter" ->
                       IF m.query # "" THEN [m EXCEPT !.loading = TRUE] ELSE m
                  [] msg.key = "esc" -> searchDeactivate(m)
                  [] msg.key \in Printable -> [m EXCEPT !.query = "q"]
                  [] msg.key = "backspace" -> [m EXCEPT !.query = ""]
                  [] OTHER -> m
           ELSE CASE msg.key = "j" /\ m.hasResults /\ m.cursor < Len(m.results) - 1 ->
                       [m EXCEPT !.cursor = @ + 1]
                  [] msg.key = "k" /\ m.cursor > 0 -> [m EXCEPT !.cursor = @ - 1]
                  [] msg.key = "/" -> [m EXCEPT !.mode = "input"]
                  [] msg.key = "esc" -> searchDeactivate(m)
                  [] OTHER -> m
    [] OTHER -> m

(***************************************************************************)
(* confirm.Model, src/internal/tui/confirm/dialog.go.                      *)
(***************************************************************************)
\* confirm.Model.Update
confirmUpdate(m, msg) ==
  IF msg.type # "KeyMsg" THEN [m |-> m, cmds |-> <<>>]
  ELSE CASE msg.key \in {"y", "Y"} ->
              [m |-> [m EXCEPT !.active = FALSE],
               cmds |-> <<confirmResult(TRUE, m.action, m.data)>>]
         [] msg.key \in {"n", "N", "esc"} ->
              [m |-> [m EXCEPT !.active = FALSE],
               cmds |-> <<confirmResult(FALSE, m.action, m.data)>>]
         [] msg.key = "enter" ->
              [m |-> [m EXCEPT !.active = FALSE],
               cmds |-> <<confirmResult(m.selected, m.action, m.data)>>]
         [] msg.key \in {"tab", "left", "right"} ->
              [m |-> [m EXCEPT !.selected = ~@], cmds |-> <<>>]
         [] OTHER -> [m |-> m, cmds |-> <<>>]

(***************************************************************************)
(* filteroverlay.Model, src/unnamed/part_003, with a select field focused. *)
(***************************************************************************)
\* filteroverlay.Model.Update
filterUpdate(m, msg) ==
  IF ~m.active \/ msg.type # "KeyMsg" THEN [m |-> m, cmds |-> <<>>]
  ELSE CASE msg.key \in {"enter", "right", "left"} ->
              [m |-> [m EXCEPT !.filter = TRUE], cmds |-> <<>>]
         [] msg.key = "c" -> [m |-> [m EXCEPT !.filter = FALSE], cmds |-> <<>>]
         [] msg.key = "a" ->
              [m |-> [m EXCEPT !.active = FALSE],
               cmds |-> <<filterResult(TRUE, m.filter)>>]
         [] msg.key = "esc" ->
              [m |-> [m EXCEPT !.active = FALSE],
               cmds |-> <<filterResult(FALSE, FALSE)>>]
         [] OTHER -> [m |-> m, cmds |-> <<>>]

(***************************************************************************)
(* workflows.Model and cacheview.Model as list views.                      *)
(***************************************************************************)
\* Update of a list view: the loaded message fills it, keys go to the list
listViewUpdate(m, msg, loadedType) ==
  CASE msg.type = loadedType ->
         IF msg.Err THEN m ELSE [m EXCEPT !.items = msg.N, !.selected = {}]
    [] msg.type = "KeyMsg" ->
         IF msg.key = " " /\ ~IsFilteringState(m.filterState) /\ loadedType = "ActionsCachesLoadedMsg"
           THEN (IF m.items = 0 THEN m
                 ELSE [m EXCEPT !.selected = IF 1 \in @ THEN {} ELSE {1}])
           ELSE [m EXCEPT !.filterState = ListFilterKey(@, msg.key, m.items)]
    [] OTHER -> m

\* SelectedWorkflow(), SelectedEntry(): the item under the cursor, 0 for nil
SelectedItem(m) == IF m.items > 0 THEN 1 ELSE 0

(***************************************************************************)
(* App helpers, src/internal/tui/app.go.                                   *)
(***************************************************************************)
\* isSystemStub(content)
isSystemStub(content) == content.kind = "stub"

\* findJobLog(name): exact key, then the first key of the map iteration
\* that contains name or is contained in it.  The order of a range over a Go
\* map is not specified: every key that matches can come first, and these
\* are the results a call can return
findJobLogs(logs, name) ==
  IF name \in DOMAIN logs THEN {[ok |-> TRUE, content |-> logs[name]]}
  ELSE LET cands == {k \in DOMAIN logs : Contains(k, name) \/ Contains(name, k)} IN
       IF cands = {} THEN {[ok |-> FALSE, content |-> EmptyText]}
       ELSE {[ok |-> TRUE, content |-> logs[k]] : k \in cands}

\* findJobLog(name) on the maps of the controller's specifications, where at
\* most one key matches a name the map does not hold
findJobLog(logs, name) == CHOOSE r \in findJobLogs(logs, name) : TRUE

\* isListFiltering()
isListFiltering(a) ==
  CASE a.currentView = "ViewRuns" -> runsIsFiltering(a.runsView)
    [] a.currentView = "ViewWorkflows" -> IsFilteringState(a.workflowsView.filterState)
    [] a.currentView = "ViewCache" -> IsFilteringState(a.cacheView.filterState)
    [] a.currentView = "ViewRunners" -> IsFilteringState(a.runnersView.filterState)
    [] OTHER -> FALSE

\* the selected run IDs as the dialog's data: a bit per run
SelectedRuns(m) ==
  (IF 1 \in m.selected THEN 1 ELSE 0) + (IF 2 \in m.selected THEN 2 ELSE 0)

(***************************************************************************)
(* App.Update, case tea.KeyMsg (app.go:1007-1403).                         *)
(***************************************************************************)
\* case "tab"
KeyTab(a) ==
  IF a.currentView = "ViewRuns" /\ ~a.logFullScreen
    THEN [a EXCEPT !.focusedPane = IF @ = "PaneLeft" THEN "PaneMiddle" ELSE "PaneLeft"]
    ELSE a

\* case "1", "2", "3", "4", "5"
KeyDigit(a, k) ==
  LET a1 == IF a.tailingJobID > 0
              THEN [a EXCEPT !.tailingJobID = 0, !.tailingJobName = "",
                             !.logView = logSetTailing(@, FALSE)]
              ELSE a
      a2 == [a1 EXCEPT !.logFullScreen = FALSE, !.infoFullScreen = FALSE]
  IN CASE k = "1" /\ a.currentView # "ViewRuns" ->
            Ret([a2 EXCEPT !.currentView = "ViewRuns", !.focusedPane = "PaneLeft",
                           !.status = "runs"], <<>>)
       [] k = "2" /\ a.currentView # "ViewWorkflows" ->
            Ret([a2 EXCEPT !.currentView = "ViewWorkflows", !.focusedPane = "PaneLeft",
                           !.status = "Workflows"], <<fetchWorkflows>>)
       [] k = "4" /\ a.currentView # "ViewCache" ->
            Ret([a2 EXCEPT !.currentView = "ViewCache", !.focusedPane = "PaneLeft",
                           !.status = "Loading caches..."], <<fetchActionsCaches>>)
       [] OTHER -> Ret(a2, <<>>)

\* case "S"
KeyS(a) ==
  IF a.currentView = "ViewRuns" /\ ~a.logFullScreen /\ ~a.infoFullScreen
    THEN [a EXCEPT !.filterOverlay = NewFilterOverlay(a.runsFilter)]
    ELSE a

\* case "/"
KeySlash(a) ==
  IF a.currentView = "ViewRuns" /\ ~a.logFullScreen
    THEN [a EXCEPT !.searchView = searchActivate(@)]
    ELSE a

\* an enter that leaves the log fetch to later
EnterRunJobsOnly(run) == <<fetchJobs(run)>>

\* cmds = append(cmds, a.fetchJobs(run.ID)); cmds = append(cmds, a.fetchLogs(run))
EnterRunCmds(run) == <<fetchJobs(run), fetchLogs(run)>>

\* case "enter", left pane: open the selected run
EnterRun(a) ==
  LET run == SelectedRun(a.runsView) IN
  IF runsIsFiltering(a.runsView) \/ run = NoRun THEN Ret(a, <<>>)
  ELSE Ret([a EXCEPT !.viewingAttempt = 0,
                     !.detailsView = detailsSetRun(@, run),
                     !.focusedPane = "PaneMiddle",
                     !.status = "Loading jobs...",
                     !.autoRefreshRunID = IF RunCompleted(run) THEN 0 ELSE run],
           EnterRunCmds(run))

\* case "enter", workflows tab: list the runs of the selected workflow
EnterWorkflow(a) ==
  IF IsFilteringState(a.workflowsView.filterState) \/ SelectedItem(a.workflowsView) = 0
    THEN Ret(a, <<>>)
    ELSE Ret([a EXCEPT !.runsFilter = TRUE, !.currentView = "ViewRuns",
                       !.runsView = NewRunsView, !.focusedPane = "PaneLeft",
                       !.status = "Loading runs..."],
             <<fetchRuns>>)

\* a test that takes every job as completed
JobCompletedAlways(job) == TRUE

\* job.Status == model.RunStatusCompleted
JobCompleted(job) == job.done

\* case "enter", middle pane: open the selected job's log, where found is
\* what findJobLog returned
EnterJobFound(a, job, found) ==
     IF job = NoJob THEN Ret(a, <<>>)
     ELSE IF ~JobCompleted(job)
       THEN Ret([a EXCEPT !.logView = logSetTailing(
                                        logSetContent(@, job.name, StepProgress(job)), TRUE),
                          !.logFullScreen = TRUE,
                          !.tailingJobID = job.id,
                          !.tailingJobName = job.name,
                          !.viewingJob = job,
                          !.status = "Watching..."],
                <<checkJobStatus(job.id)>>)
     ELSE IF found.ok
       THEN Ret([a EXCEPT !.logView = logSetContent(@, job.name, found.content),
                          !.logFullScreen = TRUE,
                          !.viewingJob = job],
                <<>>)
     ELSE Ret([a EXCEPT !.logView = logSetLoading(@),
                        !.logFullScreen = TRUE,
                        !.viewingJob = job,
                        !.status = "Fetching log..."],
              <<fetchJobLog(job.id)>>)

\* content, ok := a.findJobLog(job.Name), then the three cases
EnterJob(a) ==
  EnterJobFound(a, SelectedJob(a.detailsView),
                findJobLog(a.currentRunLogs, SelectedJob(a.detailsView).name))

\* case "enter"
KeyEnter(a) ==
  CASE a.currentView = "ViewRuns" /\ a.focusedPane = "PaneLeft" -> EnterRun(a)
    [] a.currentView = "ViewWorkflows" -> EnterWorkflow(a)
    [] a.currentView = "ViewRuns" /\ a.focusedPane = "PaneMiddle" -> EnterJob(a)
    [] OTHER -> Ret(a, <<>>)

\* case "right", "l"
KeyRight(a) ==
  IF /\ a.currentView = "ViewRuns" /\ a.focusedPane = "PaneLeft"
     /\ a.runsHasMore /\ ~a.runsLoading
    THEN Ret([a EXCEPT !.runsLoading = TRUE, !.status = "Loading page..."],
             <<fetchRunsPage(a.runsPage + 1)>>)
    ELSE Ret(a, <<>>)

\* case "left", "h"
KeyLeft(a) ==
  IF /\ a.currentView = "ViewRuns" /\ a.focusedPane = "PaneLeft"
     /\ a.runsPage > 1 /\ ~a.runsLoading
    THEN Ret([a EXCEPT !.runsLoading = TRUE, !.status = "Loading page..."],
             <<fetchRunsPage(a.runsPage - 1)>>)
    ELSE Ret(a, <<>>)

\* case "r"
KeyR(a) ==
  CASE a.currentView = "ViewRuns" ->
         Ret([a EXCEPT !.status = "Refreshing runs..."], <<fetchRuns>>)
    [] a.currentView = "ViewWorkflows" ->
         Ret([a EXCEPT !.status = "Refreshing workflows..."], <<fetchWorkflows>>)
    [] a.currentView = "ViewCache" ->
         Ret([a EXCEPT !.status = "Refreshing caches..."], <<fetchActionsCaches>>)
    [] OTHER -> Ret(a, <<>>)

\* case "R", "F", "C", "X": the four differ in the action only
KeyRunAction(a, action) ==
  LET run == SelectedRun(a.runsView) IN
  IF a.currentView = "ViewRuns" /\ run # NoRun
    THEN [a EXCEPT !.confirmDialog = NewConfirmDialog(action, run)]
    ELSE a

\* case "R"
KeyRerun(a) == KeyRunAction(a, "rerun-all")

\* case "e", "D": the two differ in the action only
KeyWorkflowAction(a, action) ==
  IF a.currentView = "ViewWorkflows" /\ SelectedItem(a.workflowsView) # 0
    THEN [a EXCEPT !.confirmDialog =
                     NewConfirmDialog(action, SelectedItem(a.workflowsView))]
    ELSE a

\* case "d"
KeyD(a) ==
  CASE a.currentView = "ViewRuns" ->
         IF SelectionCount(a.runsView) > 0
           THEN [a EXCEPT !.confirmDialog =
                   NewConfirmDialog("delete-selected-runs", SelectedRuns(a.runsView))]
         ELSE IF SelectedRun(a.runsView) # NoRun
           THEN [a EXCEPT !.confirmDialog =
                   NewConfirmDialog("delete-run", SelectedRun(a.runsView))]
         ELSE a
    [] a.currentView = "ViewWorkflows" ->
         IF SelectedItem(a.workflowsView) # 0
           THEN [a EXCEPT !.confirmDialog =
                   NewConfirmDialog("bulk-delete-runs", SelectedItem(a.workflowsView))]
           ELSE a
    [] a.currentView = "ViewCache" ->
         IF a.cacheView.selected # {}
           THEN [a EXCEPT !.confirmDialog = NewConfirmDialog("delete-selected-caches", 1)]
         ELSE IF SelectedItem(a.cacheView) # 0
           THEN [a EXCEPT !.confirmDialog = NewConfirmDialog("delete-cache-entry", 0)]
         ELSE a
    [] OTHER -> a

\* case "x"
KeyX(a) ==
  CASE a.currentView = "ViewWorkflows" ->
         IF SelectedItem(a.workflowsView) # 0
           THEN [a EXCEPT !.confirmDialog =
                   NewConfirmDialog("bulk-delete-runs", SelectedItem(a.workflowsView))]
           ELSE a
    [] a.currentView = "ViewCache" ->
         [a EXCEPT !.confirmDialog = NewConfirmDialog("clear-all-caches", 0)]
    [] OTHER -> a

\* viewingAttempt++ and wrap to 0 after run.RunAttempt
NextAttempt(v, runAttempt) == IF v + 1 > runAttempt THEN 0 ELSE v + 1

\* case "a"
KeyA(a) ==
  LET run == a.detailsView.run
      v == NextAttempt(a.viewingAttempt, RunAttemptOf(run))
  IN IF a.currentView = "ViewRuns" /\ a.logFullScreen /\ ~a.infoFullScreen
       THEN IF run # NoRun /\ RunAttemptOf(run) > 1 /\ a.viewingJob # NoJob
              THEN IF v = 0
                     THEN Ret([a EXCEPT !.viewingAttempt = v,
                                        !.status = "Loading latest (merged) logs..."],
                              <<fetchLogs(run)>>)
                     ELSE Ret([a EXCEPT !.viewingAttempt = v,
                                        !.status = "Loading attempt logs..."],
                              <<fetchLogsForAttempt(run, v)>>)
              ELSE Ret(a, <<>>)
     ELSE IF /\ a.currentView = "ViewRuns" /\ a.focusedPane = "PaneMiddle"
             /\ ~a.logFullScreen /\ ~a.infoFullScreen
       THEN IF run # NoRun /\ RunAttemptOf(run) > 1
              THEN IF v = 0
                     THEN Ret([a EXCEPT !.viewingAttempt = v,
                                        !.status = "Loading latest (merged) jobs..."],
                              <<fetchJobs(run), fetchLogs(run)>>)
                     ELSE Ret([a EXCEPT !.viewingAttempt = v,
                                        !.status = "Loading attempt..."],
                              <<fetchJobsForAttempt(run, v), fetchLogsForAttempt(run, v)>>)
              ELSE Ret(a, <<>>)
     ELSE Ret(a, <<>>)

\* case "i"
KeyI(a) ==
  IF a.currentView = "ViewRuns" /\ ~a.logFullScreen /\ ~a.infoFullScreen
    THEN IF a.focusedPane = "PaneMiddle"
           THEN LET job == SelectedJob(a.detailsView) IN
                IF job # NoJob
                  THEN Ret([a EXCEPT !.infoView = infoSetJob(@, job),
                                     !.infoFullScreen = TRUE], <<>>)
                  ELSE Ret(a, <<>>)
           ELSE LET run == SelectedRun(a.runsView) IN
                IF run = NoRun THEN Ret(a, <<>>)
                ELSE IF ~RunCompleted(run) /\ a.autoRefreshRunID = 0
                  THEN Ret([a EXCEPT !.infoView = infoSetRun(@, run),
                                     !.infoFullScreen = TRUE,
                                     !.infoStartedRefresh = TRUE,
                                     !.autoRefreshRunID = run],
                           <<fetchJobs(run), scheduleJobsRefresh(run)>>)
                  ELSE Ret([a EXCEPT !.infoView = infoSetRun(@, run),
                                     !.infoFullScreen = TRUE],
                           <<fetchJobs(run)>>)
    ELSE Ret(a, <<>>)

\* return &a, nil and return &a, tea.Quit inside the switch
Return(a, q) == [a |-> a, cmds |-> <<>>, quit |-> q, ret |-> TRUE]

\* case tea.KeyMsg of the main switch; quit is TRUE for tea.Quit, ret is
\* TRUE where the handler returns before the propagation to the sub-views
KeyMain(a, k) ==
  IF a.showHelp
    THEN Return(IF k \in {"esc", "?", "q"} THEN [a EXCEPT !.showHelp = FALSE] ELSE a,
                FALSE)
  ELSE IF k = "q" THEN Return(a, TRUE)
  ELSE IF k = "?" THEN Return([a EXCEPT !.showHelp = TRUE], FALSE)
  ELSE CASE k = "tab" -> Ret(KeyTab(a), <<>>)
         [] k \in {"1", "2", "4"} -> KeyDigit(a, k)
         [] k = "S" -> Ret(KeyS(a), <<>>)
         [] k = "/" -> Ret(KeySlash(a), <<>>)
         [] k = "enter" -> KeyEnter(a)
         [] k = "right" -> KeyRight(a)
         [] k = "left" -> KeyLeft(a)
         [] k = "r" -> KeyR(a)
         [] k = "R" -> Ret(KeyRerun(a), <<>>)
         [] k = "F" -> Ret(KeyRunAction(a, "rerun-failed"), <<>>)
         [] k = "C" -> Ret(KeyRunAction(a, "cancel-run"), <<>>)
         [] k = "X" -> Ret(KeyRunAction(a, "force-cancel-run"), <<>>)
         [] k = "e" -> Ret(KeyWorkflowAction(a, "enable-workflow"), <<>>)
         [] k = "D" -> Ret(KeyWorkflowAction(a, "disable-workflow"), <<>>)
         [] k = "d" -> Ret(KeyD(a), <<>>)
         [] k = "x" -> Ret(KeyX(a), <<>>)
         [] k = "a" -> KeyA(a)
         [] k = "i" -> KeyI(a)
         [] OTHER -> Ret(a, <<>>)

(***************************************************************************)
(* App.Update, the result and tick cases (app.go:1405-1657).               *)
(***************************************************************************)
\* for _, j := range msg.Jobs { if j.Status != completed { allDone = false } }
AllDone(jobs) == \A i \in 1..Len(jobs) : jobs[i].done

\* case runs.NeedNextPageMsg
OnNeedNextPage(a) ==
  IF a.currentView = "ViewRuns" /\ a.runsHasMore /\ ~a.runsLoading
    THEN Ret([a EXCEPT !.runsLoading = TRUE, !.status = "Loading page..."],
             <<fetchRunsPage(a.runsPage + 1)>>)
    ELSE Ret(a, <<>>)

\* case ui.ActionResultMsg
OnActionResult(a, msg) ==
  IF msg.Err THEN Ret([a EXCEPT !.status = "Error"], <<>>)
  ELSE Ret([a EXCEPT !.status = "success"],
           IF a.currentView = "ViewWorkflows" THEN <<fetchWorkflows>> ELSE <<fetchRuns>>)

\* case ui.WorkflowsLoadedMsg
OnWorkflowsLoaded(a, msg) ==
  IF msg.Err THEN Ret([a EXCEPT !.status = "Error"], <<>>)
  ELSE Ret([a EXCEPT !.status = "workflows"], <<fetchWorkflowStats>>)

\* case ui.RunsLoadedMsg
OnRunsLoaded(a, msg) ==
  IF msg.Err
    THEN Ret([a EXCEPT !.runsLoading = FALSE, !.status = "Error"],
             <<scheduleRunsRefresh>>)
    ELSE Ret([a EXCEPT !.runsPage = 1, !.runsHasMore = msg.Full,
                       !.runsLoading = FALSE, !.status = "runs"],
             <<scheduleRunsRefresh>>)

\* case ui.RunsPageMsg
OnRunsPage(a, msg) ==
  IF msg.Err
    THEN Ret([a EXCEPT !.runsLoading = FALSE, !.status = "Error loading page"],
             <<scheduleRunsRefresh>>)
    ELSE Ret([a EXCEPT !.runsLoading = FALSE, !.runsPage = msg.Page,
                       !.runsHasMore = msg.Full, !.status = "runs"],
             <<scheduleRunsRefresh>>)

\* case ui.JobsLoadedMsg
OnJobsLoaded(a, msg) ==
  IF msg.Err THEN Ret([a EXCEPT !.status = "Error loading jobs"], <<>>)
  ELSE LET a1 == [a EXCEPT !.status = "jobs loaded"]
           a2 == IF a.infoFullScreen /\ a.infoView.run # NoRun /\ a.infoView.run = msg.RunID
                   THEN [a1 EXCEPT !.infoView = infoSetJobs(@, msg.Jobs)]
                   ELSE a1
       IN IF a.autoRefreshRunID = msg.RunID
            THEN IF AllDone(msg.Jobs)
                   THEN Ret([a2 EXCEPT !.autoRefreshRunID = 0,
                                       !.status = "jobs - all completed"],
                            IF RunByID(a.runsView, msg.RunID) # NoRun
                              THEN <<fetchLogs(msg.RunID)>> ELSE <<>>)
                   ELSE Ret(a2, <<scheduleJobsRefresh(msg.RunID)>>)
            ELSE Ret(a2, <<>>)

\* case ui.RunsTickMsg
OnRunsTick(a) ==
  IF a.currentView = "ViewRuns" /\ ~a.runsLoading
    THEN Ret(a, <<refreshCurrentRuns>>)
    ELSE Ret(a, <<scheduleRunsRefresh>>)

\* case ui.RunsRefreshedMsg
OnRunsRefreshed(a, msg) ==
  IF msg.Err THEN Ret(a, <<scheduleRunsRefresh>>)
  ELSE Ret([a EXCEPT !.runsHasMore = msg.Full], <<scheduleRunsRefresh>>)

\* a handler of JobsTickMsg that does not compare the run of the tick
JobsTickAnyRun(a, msg) == a.currentView = "ViewRuns"

\* the guard of case ui.JobsTickMsg
JobsTickGuard(a, msg) == a.autoRefreshRunID = msg.RunID /\ a.currentView = "ViewRuns"

\* case ui.JobsTickMsg
OnJobsTick(a, msg) ==
  IF JobsTickGuard(a, msg)
    THEN Ret(a, IF a.infoFullScreen
                  THEN <<fetchJobs(msg.RunID), fetchRun(msg.RunID)>>
                  ELSE <<fetchJobs(msg.RunID)>>)
    ELSE Ret(a, <<>>)

\* case ui.LogTailTickMsg
OnLogTailTick(a, msg) ==
  IF a.tailingJobID = msg.JobID /\ a.logFullScreen
    THEN Ret(a, <<checkJobStatus(msg.JobID)>>)
    ELSE Ret(a, <<>>)

\* a handler of JobTailStatusMsg that takes every status
TailStatusAny(a, msg) == TRUE

\* the guard of case ui.JobTailStatusMsg
TailStatusGuard(a, msg) == a.tailingJobID = msg.JobID

\* case ui.JobTailStatusMsg
OnJobTailStatus(a, msg) ==
  IF ~TailStatusGuard(a, msg) THEN Ret(a, <<>>)
  ELSE IF msg.Err
    THEN Ret([a EXCEPT !.logView = logUpdateContent(@, ErrorText),
                       !.status = "Error watching, retrying..."],
             <<scheduleLogRefresh(msg.JobID)>>)
  ELSE IF msg.Completed
    THEN Ret([a EXCEPT !.tailingJobID = 0, !.tailingJobName = "",
                       !.logView = logSetLoading(logSetTailing(@, FALSE)),
                       !.viewingJob = msg.Job,
                       !.status = "Job completed - loading logs..."],
             <<fetchJobLog(msg.JobID)>>)
  ELSE Ret([a EXCEPT !.logView = logUpdateContent(@, StepProgress(msg.Job)),
                     !.status = "Watching..."],
           <<scheduleLogRefresh(msg.JobID)>>)

\* case ui.RunLoadedMsg: the run shown by the info view is replaced by the
\* run of the same ID
OnRunLoaded(a, msg) ==
  IF ~msg.Err /\ a.infoFullScreen /\ a.infoView.run # NoRun /\ a.infoView.run = msg.RunID
    THEN Ret([a EXCEPT !.infoView = infoSetRun(@, msg.RunID)], <<>>)
    ELSE Ret(a, <<>>)

\* case ui.JobLogLoadedMsg
OnJobLogLoaded(a, msg) ==
  IF msg.Err THEN Ret([a EXCEPT !.status = "Error loading log"], <<>>)
  ELSE LET logs == [k \in DOMAIN a.currentRunLogs \cup {msg.JobName} |->
                      IF k = msg.JobName THEN msg.Content ELSE a.currentRunLogs[k]]
           a1 == [a EXCEPT !.currentRunLogs = logs, !.status = "Log loaded"]
       IN IF a.logFullScreen
            THEN Ret([a1 EXCEPT !.logView = logSetContent(@, msg.JobName, msg.Content)],
                     <<>>)
            ELSE Ret(a1, <<>>)

\* fmt.Sprintf("%s (attempt %d)", a.viewingJob.Name, a.viewingAttempt): the
\* display name is the job name, the attempt is kept by viewingAttempt
DisplayName(a) == a.viewingJob.name

\* case ui.LogsLoadedMsg
OnLogsLoaded(a, msg) ==
  IF msg.Err THEN Ret([a EXCEPT !.status = "Error loading logs"], <<>>)
  ELSE LET a1 == [a EXCEPT !.currentRunLogs = msg.Logs, !.currentRunID = msg.RunID,
                           !.status = "Logs loaded"]
           found == findJobLog(msg.Logs, a.viewingJob.name)
       IN IF a.logFullScreen /\ a.viewingJob # NoJob /\ a.tailingJobID = 0
            THEN IF found.ok /\ ~isSystemStub(found.content)
                   THEN Ret([a1 EXCEPT
                               !.logView = logSetContent(@, DisplayName(a), found.content)],
                            <<>>)
                   ELSE Ret([a1 EXCEPT
                               !.logView = logSetContent(@, DisplayName(a), NoLogText)],
                            <<>>)
            ELSE Ret(a1, <<>>)

\* case ui.ActionsCachesLoadedMsg
OnActionsCachesLoaded(a, msg) ==
  Ret([a EXCEPT !.status = IF msg.Err THEN "Error loading caches" ELSE "caches"], <<>>)

\* case ui.ActionsCacheDeletedMsg
OnActionsCacheDeleted(a, msg) ==
  IF msg.Err THEN Ret([a EXCEPT !.status = "Error deleting cache"], <<>>)
  ELSE Ret([a EXCEPT !.status = "Cache deleted"], <<fetchActionsCaches>>)

\* case ui.SearchDoneMsg: msg.Results is never nil
OnSearchDone(a, msg) == Ret([a EXCEPT !.status = "Search: matches"], <<>>)

\* the main switch for a message that is not a key
MsgMain(a, msg) ==
  CASE msg.type = "NeedNextPageMsg" -> OnNeedNextPage(a)
    [] msg.type = "ActionResultMsg" -> OnActionResult(a, msg)
    [] msg.type = "WorkflowsLoadedMsg" -> OnWorkflowsLoaded(a, msg)
    [] msg.type = "RunsLoadedMsg" -> OnRunsLoaded(a, msg)
    [] msg.type = "RunsPageMsg" -> OnRunsPage(a, msg)
    [] msg.type = "JobsLoadedMsg" -> OnJobsLoaded(a, msg)
    [] msg.type = "RunsTickMsg" -> OnRunsTick(a)
    [] msg.type = "RunsRefreshedMsg" -> OnRunsRefreshed(a, msg)
    [] msg.type = "JobsTickMsg" -> OnJobsTick(a, msg)
    [] msg.type = "LogTailTickMsg" -> OnLogTailTick(a, msg)
    [] msg.type = "JobTailStatusMsg" -> OnJobTailStatus(a, msg)
    [] msg.type = "RunLoadedMsg" -> OnRunLoaded(a, msg)
    [] msg.type = "JobLogLoadedMsg" -> OnJobLogLoaded(a, msg)
    [] msg.type = "LogsLoadedMsg" -> OnLogsLoaded(a, msg)
    [] msg.type = "ActionsCachesLoadedMsg" -> OnActionsCachesLoaded(a, msg)
    [] msg.type = "ActionsCacheDeletedMsg" -> OnActionsCacheDeleted(a, msg)
    [] msg.type = "SearchDoneMsg" -> OnSearchDone(a, msg)
    [] OTHER -> Ret(a, <<>>)

(***************************************************************************)
(* App.Update, the propagation to the sub-views (app.go:1660-1808).        *)
(***************************************************************************)
\* full-screen log, a key: esc and backspace leave the log, others go to it
PropagateLogKey(a, msg) ==
  IF msg.key \in {"esc", "backspace"} /\ ~a.logView.searching
    THEN LET a1 == [a EXCEPT !.logFullScreen = FALSE, !.tailingJobID = 0,
                             !.tailingJobName = "", !.viewingJob = NoJob,
                             !.logView = logSetTailing(@, FALSE)]
         IN IF a.cameFromSearch
              THEN [a1 EXCEPT !.cameFromSearch = FALSE,
                              !.searchView = searchActivateResults(@),
                              !.focusedPane = "PaneLeft"]
              ELSE [a1 EXCEPT !.focusedPane = "PaneMiddle"]
    ELSE [a EXCEPT !.logView = logUpdate(@, msg)]

\* full-screen info, a key: esc and backspace leave it
PropagateInfoKey(a, msg) ==
  IF msg.key \in {"esc", "backspace"}
    THEN LET a1 == [a EXCEPT !.infoFullScreen = FALSE,
                             !.focusedPane = IF a.infoView.showingJob
                                               THEN "PaneMiddle" ELSE "PaneLeft"]
         IN IF a.infoStartedRefresh
              THEN [a1 EXCEPT !.autoRefreshRunID = 0, !.infoStartedRefresh = FALSE]
              ELSE a1
    ELSE a

\* a.runsView, cmd = a.runsView.Update(msg); cmds = append(cmds, cmd)
WithRuns(a, rv, cmds) == Ret([a EXCEPT !.runsView = rv.m], cmds \o rv.cmds)

\* a message that is not a key goes to the runs, details and log views
PropagateData(a, msg, cmds) ==
  WithRuns([a EXCEPT !.detailsView = detailsUpdate(@, msg),
                     !.logView = logUpdate(@, msg)],
           runsUpdate(a.runsView, msg), cmds)

\* a routing that hands a key to the runs list and to the jobs list
PaneKeyAll(a, msg, cmds) ==
  WithRuns([a EXCEPT !.detailsView = detailsUpdate(@, msg)],
           runsUpdate(a.runsView, msg), cmds)

\* the three panes, a key: it goes to the focused pane; then esc navigation
PaneKey(a, msg, cmds) ==
  IF a.focusedPane = "PaneLeft"
    THEN WithRuns(a, runsUpdate(a.runsView, msg), cmds)
    ELSE Ret([a EXCEPT !.detailsView = detailsUpdate(@, msg)], cmds)

\* esc navigation: middle pane to left pane; in the left pane, with no list
\* filter before the key, esc clears the run filter and lists again
EscNavigation(a, r1, hadFilter) ==
  IF a.focusedPane = "PaneMiddle"
    THEN Ret([r1.a EXCEPT !.focusedPane = "PaneLeft"], r1.cmds)
  ELSE IF ~hadFilter /\ a.runsFilter
    THEN Ret([r1.a EXCEPT !.runsFilter = FALSE, !.runsView = NewRunsView,
                          !.status = "Loading runs..."],
             r1.cmds \o <<fetchRuns>>)
  ELSE r1

PropagatePaneKey(a, msg, cmds) ==
  IF msg.key # "esc" THEN PaneKey(a, msg, cmds)
  ELSE EscNavigation(a, PaneKey(a, msg, cmds), runsHasActiveFilter(a.runsView))

\* another tab: its view takes the message, the runs view takes the listings
TabView(a, msg) ==
  CASE a.currentView = "ViewWorkflows" ->
         [a EXCEPT !.workflowsView = listViewUpdate(@, msg, "WorkflowsLoadedMsg")]
    [] a.currentView = "ViewCache" ->
         [a EXCEPT !.cacheView = listViewUpdate(@, msg, "ActionsCachesLoadedMsg")]
    [] a.currentView = "ViewRunners" ->
         [a EXCEPT !.runnersView = listViewUpdate(@, msg, "RunnersLoadedMsg")]
    [] OTHER -> a

PropagateTab(a, msg, cmds) ==
  IF msg.type \in {"RunsLoadedMsg", "RunsPageMsg", "RunsRefreshedMsg"}
    THEN WithRuns(TabView(a, msg), runsUpdate(a.runsView, msg), cmds)
    ELSE Ret(TabView(a, msg), cmds)

\* the propagation that ends Update
Propagate(a, msg, cmds) ==
  IF a.currentView = "ViewRuns"
    THEN IF a.logFullScreen
           THEN (IF IsKey(msg) THEN Ret(PropagateLogKey(a, msg), cmds)
                 ELSE PropagateData(a, msg, cmds))
         ELSE IF a.infoFullScreen
           THEN (IF IsKey(msg) THEN Ret(PropagateInfoKey(a, msg), cmds)
                 ELSE WithRuns([a EXCEPT !.detailsView = detailsUpdate(@, msg)],
                               runsUpdate(a.runsView, msg), cmds))
         ELSE (IF IsKey(msg) THEN PropagatePaneKey(a, msg, cmds)
               ELSE PropagateData(a, msg, cmds))
    ELSE PropagateTab(a, msg, cmds)

(***************************************************************************)
(* App.Update, the routing that precedes the main switch (app.go:834-990). *)
(***************************************************************************)
\* a controller that takes every confirm.ResultMsg as a confirmation
ConfirmedAlways(msg) == TRUE

\* if result.Confirmed
Confirmed(msg) == msg.Confirmed

\* the actions whose case appends one do* command with result.Data
SimpleActions ==
  {"rerun-all", "rerun-failed", "delete-run", "cancel-run", "force-cancel-run",
   "enable-workflow", "disable-workflow"}

\* msg is a confirm.ResultMsg
OnConfirmResult(a, msg) ==
  IF ~Confirmed(msg) THEN Ret(a, <<>>)
  ELSE CASE msg.Action \in SimpleActions ->
              Ret(a, <<doAction(msg.Action, msg.Data)>>)
         [] msg.Action = "bulk-delete-runs" ->
              IF SelectedItem(a.workflowsView) # 0
                THEN Ret([a EXCEPT !.status = "Deleting runs..."],
                         <<doAction(msg.Action, SelectedItem(a.workflowsView))>>)
                ELSE Ret(a, <<>>)
         [] msg.Action = "delete-selected-runs" ->
              Ret([a EXCEPT !.status = "Deleting runs...", !.runsView.selected = {}],
                  <<doAction(msg.Action, msg.Data)>>)
         [] msg.Action = "delete-selected-caches" ->
              Ret([a EXCEPT !.status = "Deleting caches...", !.cacheView.selected = {}],
                  <<doAction(msg.Action, msg.Data)>>)
         [] msg.Action = "delete-cache-entry" ->
              IF SelectedItem(a.cacheView) # 0
                THEN Ret([a EXCEPT !.status = "Deleting cache..."],
                         <<doAction(msg.Action, SelectedItem(a.cacheView))>>)
                ELSE Ret(a, <<>>)
         [] msg.Action = "clear-all-caches" ->
              Ret([a EXCEPT !.status = "Deleting all caches..."],
                  <<doAction(msg.Action, 0)>>)
         [] OTHER -> Ret(a, <<>>)

\* msg is a filteroverlay.ResultMsg
OnFilterResult(a, msg) ==
  IF msg.Applied
    THEN Ret([a EXCEPT !.runsFilter = msg.Filter, !.runsPage = 1,
                       !.runsView = NewRunsView, !.status = "Loading runs..."],
             <<fetchRuns>>)
    ELSE Ret(a, <<>>)

\* the search overlay is active: it takes the message; Enter dispatches the
\* search (input mode) or opens the log of the selected match (results mode)
SearchOpenMatch(a1, match, found) ==
  IF match # "" /\ found.ok
    THEN Ret([a1 EXCEPT !.searchView = searchDeactivate(@),
                        !.logView = logSetContent(@, match, found.content),
                        !.logFullScreen = TRUE,
                        !.cameFromSearch = TRUE],
             <<>>)
    ELSE Ret(a1, <<>>)

SearchEnter(a1) ==
  IF a1.searchView.mode = "input"
    THEN IF a1.searchView.query = "" THEN Ret(a1, <<>>)
         ELSE IF DOMAIN a1.currentRunLogs # {}
           THEN Ret(a1, <<executeSearch(a1.currentRunLogs)>>)
           ELSE Ret([a1 EXCEPT !.status = "No logs available yet"], <<>>)
    ELSE SearchOpenMatch(a1, SelectedMatch(a1.searchView),
                         findJobLog(a1.currentRunLogs, SelectedMatch(a1.searchView)))

SearchAfter(a1, msg) ==
  IF KeyIs(msg, "enter") THEN SearchEnter(a1) ELSE Ret(a1, <<>>)

OnSearchActive(a, msg) ==
  SearchAfter([a EXCEPT !.searchView = searchUpdate(@, msg)], msg)

\* a list is being filtered: the key goes to the list of the current view
OnListFilterKey(a, msg) ==
  CASE a.currentView = "ViewRuns" ->
         WithRuns(a, runsUpdate(a.runsView, msg), <<>>)
    [] a.currentView = "ViewWorkflows" ->
         Ret([a EXCEPT !.workflowsView = listViewUpdate(@, msg, "WorkflowsLoadedMsg")],
             <<>>)
    [] a.currentView = "ViewCache" ->
         Ret([a EXCEPT !.cacheView = listViewUpdate(@, msg, "ActionsCachesLoadedMsg")],
             <<>>)
    [] a.currentView = "ViewRunners" ->
         Ret([a EXCEPT !.runnersView = listViewUpdate(@, msg, "RunnersLoadedMsg")],
             <<>>)
    [] OTHER -> Ret(a, <<>>)

\* the main switch, then the propagation
AfterMain(r, msg) ==
  IF r.ret THEN [a |-> r.a, cmds |-> r.cmds, quit |-> r.quit]
  ELSE Propagate(r.a, msg, r.cmds)

OnMain(a, msg) ==
  IF IsKey(msg) THEN AfterMain(KeyMain(a, msg.key), msg)
  ELSE AfterMain(MsgMain(a, msg), msg)

\* a.confirmDialog, cmd = a.confirmDialog.Update(msg)
WithConfirm(a, r) == Ret([a EXCEPT !.confirmDialog = r.m], r.cmds)

\* a.filterOverlay, cmd = a.filterOverlay.Update(msg)
WithFilter(a, r) == Ret([a EXCEPT !.filterOverlay = r.m], r.cmds)

\* an Update without the in-log search interception
NoLogSearchTyping(a, msg) == FALSE

\* if _, isKey := msg.(tea.KeyMsg); isKey && a.logFullScreen && a.logView.IsSearching()
LogSearchTyping(a, msg) == IsKey(msg) /\ a.logFullScreen /\ a.logView.searching

\* func (a App) Update(msg tea.Msg) (tea.Model, tea.Cmd)
Update(a, msg) ==
  IF msg.type = "ConfirmResultMsg" THEN OnConfirmResult(a, msg)
  ELSE IF a.confirmDialog.active
    THEN WithConfirm(a, confirmUpdate(a.confirmDialog, msg))
  ELSE IF msg.type = "FilterResultMsg" THEN OnFilterResult(a, msg)
  ELSE IF a.filterOverlay.active
    THEN WithFilter(a, filterUpdate(a.filterOverlay, msg))
  ELSE IF a.searchView.active THEN OnSearchActive(a, msg)
  ELSE IF LogSearchTyping(a, msg)
    THEN Ret([a EXCEPT !.logView = logUpdate(@, msg)], <<>>)
  ELSE IF IsKey(msg) /\ isListFiltering(a) THEN OnListFilterKey(a, msg)
  ELSE OnMain(a, msg)

\* key k of a reaches the main switch: no dialog, form or search overlay
\* takes it, the log view is not typing a search, no list is being filtered
\* and the help is closed
ReachesMain(a, k) ==
  /\ ~a.confirmDialog.active
  /\ ~a.filterOverlay.active
  /\ ~a.searchView.active
  /\ ~LogSearchTyping(a, KeyMsg(k))
  /\ ~isListFiltering(a)
  /\ ~a.showHelp

\* enter opens a job's log through findJobLog: in the jobs pane of the runs
\* tab (app.go:1155-1186), and on a match of the search results (app.go:934-958)
EnterOnJob(a) ==
  /\ ReachesMain(a, "enter")
  /\ a.currentView = "ViewRuns"
  /\ a.focusedPane = "PaneMiddle"

EnterOnMatch(a) ==
  /\ ~a.confirmDialog.active
  /\ ~a.filterOverlay.active
  /\ a.searchView.active
  /\ searchUpdate(a.searchView, KeyMsg("enter")).mode # "input"

\* what a call Update(msg) can return: one value for each result the call of
\* findJobLog it makes can have
Updates(a, msg) ==
  IF KeyIs(msg, "enter") /\ EnterOnJob(a)
    THEN {AfterMain(EnterJobFound(a, SelectedJob(a.detailsView), found), msg) :
            found \in findJobLogs(a.currentRunLogs, SelectedJob(a.detailsView).name)}
  ELSE IF KeyIs(msg, "enter") /\ EnterOnMatch(a)
    THEN {SearchOpenMatch([a EXCEPT !.searchView = searchUpdate(@, msg)],
                          SelectedMatch(searchUpdate(a.searchView, msg)), found) :
            found \in findJobLogs(a.currentRunLogs,
                                  SelectedMatch(searchUpdate(a.searchView, msg)))}
  ELSE {Update(a, msg)}

(***************************************************************************)
(* The commands: what each can post when it completes.                     *)
(***************************************************************************)
\* the runs of page p of the listing
PageRuns(p) == IF p <= 1 THEN <<1, 2>> ELSE <<2>>

\* client.ListRuns: an error, or a page; Full is len(resp.Runs) >= runsPerPage
ListingOutcomes(type, p) ==
  {[type |-> type, Err |-> TRUE, Runs |-> <<>>, Full |-> FALSE, Page |-> p]}
    \cup {[type |-> type, Err |-> FALSE, Runs |-> PageRuns(p), Full |-> f, Page |-> p] :
            f \in {FALSE, p < MaxPage}}

\* the attempt a command without an attempt number reads: the latest
AttemptRead(c) == IF c.att = 0 THEN RunAttemptOf(c.run) ELSE c.att

\* client.ListJobs / ListJobsForAttempt: the jobs of the run, ordered by
\* name; only the latest attempt of a run in progress has running jobs
JobLists(run, att) ==
  {[k \in 1..NumJobs |-> Job(run, att, k, d[k])] :
     d \in [1..NumJobs -> {TRUE, RunCompleted(run) \/ att < RunAttemptOf(run)}]}

\* the archive of one attempt: a log per job name it holds
ArchiveLogs(run, att) ==
  {[k \in D |-> LogText(run, att, k)] : D \in {{}, {"build (arm)"}, JobNames}}

\* the messages command c can post
Resolve(c) ==
  CASE c.c = "fetchRuns" -> ListingOutcomes("RunsLoadedMsg", 1)
    [] c.c = "fetchRunsPage" -> ListingOutcomes("RunsPageMsg", c.page)
    [] c.c = "refreshCurrentRuns" ->
         {[type |-> "RunsRefreshedMsg", Err |-> e, Full |-> FALSE] : e \in BOOLEAN}
    [] c.c = "fetchJobs" ->
         {[type |-> "JobsLoadedMsg", RunID |-> c.run, Err |-> TRUE, Jobs |-> <<>>]}
           \cup {[type |-> "JobsLoadedMsg", RunID |-> c.run, Err |-> FALSE, Jobs |-> js] :
                   js \in JobLists(c.run, AttemptRead(c))}
    [] c.c = "fetchLogs" ->
         {[type |-> "LogsLoadedMsg", RunID |-> c.run, Attempt |-> AttemptRead(c),
           Err |-> TRUE, Logs |-> NoRunLogs]}
           \cup {[type |-> "LogsLoadedMsg", RunID |-> c.run, Attempt |-> AttemptRead(c),
                  Err |-> FALSE, Logs |-> l] :
                   l \in {m \in ArchiveLogs(c.run, AttemptRead(c)) :
                            c.att # 0 \/ DOMAIN m # {}}}
    [] c.c = "fetchRun" ->
         {[type |-> "RunLoadedMsg", RunID |-> c.run, Err |-> e] : e \in BOOLEAN}
    [] c.c = "fetchJobLog" ->
         {[type |-> "JobLogLoadedMsg", JobID |-> c.job, JobName |-> JobNameOf(JobIdxOf(c.job)),
           Err |-> TRUE, Content |-> EmptyText],
          [type |-> "JobLogLoadedMsg", JobID |-> c.job, JobName |-> JobNameOf(JobIdxOf(c.job)),
           Err |-> FALSE,
           Content |-> LogText(JobRunOf(c.job), JobAttOf(c.job), JobNameOf(JobIdxOf(c.job)))]}
    [] c.c = "checkJobStatus" ->
         {[type |-> "JobTailStatusMsg", JobID |-> c.job, Err |-> TRUE, Completed |-> FALSE,
           Job |-> NoJob]}
           \cup {[type |-> "JobTailStatusMsg", JobID |-> c.job, Err |-> FALSE,
                  Completed |-> d,
                  Job |-> Job(JobRunOf(c.job), JobAttOf(c.job), JobIdxOf(c.job), d)] :
                   d \in BOOLEAN}
    [] c.c = "scheduleRunsRefresh" -> {[type |-> "RunsTickMsg"]}
    [] c.c = "scheduleJobsRefresh" -> {[type |-> "JobsTickMsg", RunID |-> c.run]}
    [] c.c = "scheduleLogRefresh" -> {[type |-> "LogTailTickMsg", JobID |-> c.job]}
    [] c.c = "fetchWorkflows" ->
         {[type |-> "WorkflowsLoadedMsg", Err |-> TRUE, N |-> 0]}
           \cup {[type |-> "WorkflowsLoadedMsg", Err |-> FALSE, N |-> n] : n \in 0..1}
    [] c.c = "fetchActionsCaches" ->
         {[type |-> "ActionsCachesLoadedMsg", Err |-> TRUE, N |-> 0]}
           \cup {[type |-> "ActionsCachesLoadedMsg", Err |-> FALSE, N |-> n] : n \in 0..1}
    [] c.c = "doAction" ->
         {[type |-> IF c.arg \in {"delete-selected-caches", "delete-cache-entry",
                                  "clear-all-caches"}
                      THEN "ActionsCacheDeletedMsg" ELSE "ActionResultMsg",
           Err |-> e] : e \in BOOLEAN}
    [] c.c = "executeSearch" ->
         {[type |-> "SearchDoneMsg", Results |-> <<>>]}
           \cup {[type |-> "SearchDoneMsg", Results |-> <<n>>] :
                   n \in IF c.arg = "both" THEN JobNames ELSE {c.arg}}
    [] c.c = "confirmResult" ->
         {[type |-> "ConfirmResultMsg", Confirmed |-> c.att = 1, Action |-> c.arg,
           Data |-> c.run]}
    [] c.c = "filterResult" ->
         {[type |-> "FilterResultMsg", Applied |-> c.att = 1, Filter |-> c.page = 1]}
    [] c.c = "needNextPage" -> {[type |-> "NeedNextPageMsg"]}
    [] OTHER -> {}

\* tea.Batch(cmds...) as a bag
BatchBag(cmds) ==
  LET S == {cmds[i] : i \in 1..Len(cmds)} IN
  [c \in S |-> Cardinality({i \in 1..Len(cmds) : cmds[i] = c})]

\* the commands in flight stay within the bounds of the model
WithinBounds(b) ==
  /\ BagCardinality(b) <= MaxPending
  /\ \A c \in BagToSet(b) : CopiesIn(c, b) <= MaxDup

(***************************************************************************)
(* The program: Bubble Tea calls Update with one message at a time.        *)
(***************************************************************************)
\* the idle fetchLogs task of the controller's specification
MergeIdle ==
  /\ mAttempt = 1
  /\ results = [a \in 1..1 |-> [att |-> 0, logs |-> NoLogs, err |-> FALSE]]
  /\ fetchPc = [a \in 1..1 |-> "run"]
  /\ mergeIdx = 1
  /\ merged = NoLogs
  /\ lastErr = FALSE
  /\ mergeMsg = NoMsg

\* NewApp, then tea.Program runs Init(): the first listing fetches
Init ==
  /\ app = NewApp
  /\ pending = BatchBag(<<fetchWorkflows, fetchRuns>>)
  /\ quit = FALSE
  /\ steps = 0
  /\ MergeIdle
  /\ SideIdle

\* the program after a call of Update returned r, with p the commands in
\* flight; a call that changes nothing is a stuttering step
Returned(r, p) ==
  /\ steps < MaxSteps
  /\ WithinBounds(p)
  /\ app' = r.a
  /\ pending' = p
  /\ quit' = r.quit
  /\ steps' = IF p = pending /\ r.a = app /\ r.quit = quit THEN steps ELSE steps + 1
  /\ UNCHANGED <<mergeVars, sideVars>>

\* the command that posted the message is gone, the batch r returned is new
Posted(r, took) == Returned(r, (pending (-) took) (+) BatchBag(r.cmds))

\* one call of Update with msg; took is the bag of the command that posted it
Handle(msg, took) == Posted(Update(app, msg), took)

\* the commands of kind in flight
InFlight(kind) == {c \in BagToSet(pending) : c.c = kind}

\* fetchRuns() posts ui.RunsLoadedMsg
RunsLoaded ==
  /\ ~quit
  /\ \E c \in InFlight("fetchRuns") :
       \E msg \in Resolve(c) : Handle(msg, SetToBag({c}))

\* refreshCurrentRuns() posts ui.RunsRefreshedMsg
RunsRefreshed ==
  /\ ~quit
  /\ \E c \in InFlight("refreshCurrentRuns") :
       \E msg \in Resolve(c) : Handle(msg, SetToBag({c}))

\* the 5 s timer of scheduleRunsRefresh() posts ui.RunsTickMsg
RunsTick ==
  /\ ~quit
  /\ \E c \in InFlight("scheduleRunsRefresh") :
       \E msg \in Resolve(c) : Handle(msg, SetToBag({c}))

\* fetchJobs / fetchJobsForAttempt posts ui.JobsLoadedMsg
JobsLoaded ==
  /\ ~quit
  /\ \E c \in InFlight("fetchJobs") :
       \E msg \in Resolve(c) : Handle(msg, SetToBag({c}))

\* the 3 s timer of scheduleJobsRefresh(runID) posts ui.JobsTickMsg
JobsTick ==
  /\ ~quit
  /\ \E c \in InFlight("scheduleJobsRefresh") :
       \E msg \in Resolve(c) : Handle(msg, SetToBag({c}))

\* fetchLogs / fetchLogsForAttempt posts ui.LogsLoadedMsg
LogsLoaded ==
  /\ ~quit
  /\ \E c \in InFlight("fetchLogs") :
       \E msg \in Resolve(c) : Handle(msg, SetToBag({c}))

\* fetchJobLog(jobID, jobName) posts ui.JobLogLoadedMsg
JobLogLoaded ==
  /\ ~quit
  /\ \E c \in InFlight("fetchJobLog") :
       \E msg \in Resolve(c) : Handle(msg, SetToBag({c}))

\* checkJobStatus(jobID, jobName) posts ui.JobTailStatusMsg
JobTailStatus ==
  /\ ~quit
  /\ \E c \in InFlight("checkJobStatus") :
       \E msg \in Resolve(c) : Handle(msg, SetToBag({c}))

\* the 1.5 s timer of scheduleLogRefresh posts ui.LogTailTickMsg
LogTailTick ==
  /\ ~quit
  /\ \E c \in InFlight("scheduleLogRefresh") :
       \E msg \in Resolve(c) : Handle(msg, SetToBag({c}))

\* a confirmed action posts ui.ActionResultMsg or ui.ActionsCacheDeletedMsg
ActionResult ==
  /\ ~quit
  /\ \E c \in InFlight("doAction") :
       \E msg \in Resolve(c) : Handle(msg, SetToBag({c}))

\* executeSearch(query) posts ui.SearchDoneMsg
SearchDone ==
  /\ ~quit
  /\ \E c \in InFlight("executeSearch") :
       \E msg \in Resolve(c) : Handle(msg, SetToBag({c}))

\* the confirm dialog's command posts confirm.ResultMsg
ConfirmResult ==
  /\ ~quit
  /\ \E c \in InFlight("confirmResult") :
       \E msg \in Resolve(c) : Handle(msg, SetToBag({c}))

\* the filter form's command posts filteroverlay.ResultMsg
FilterResult ==
  /\ ~quit
  /\ \E c \in InFlight("filterResult") :
       \E msg \in Resolve(c) : Handle(msg, SetToBag({c}))

\* the session: overlays, dialogs, the run-list refresher and job polling
Keys == {"enter", "esc", "i", "/", "S", "R", "y", "z", "r", "a", "f"}

\* the user presses a key
Key ==
  /\ ~quit
  /\ \E k \in Keys : Handle(KeyMsg(k), EmptyBag)

Next ==
  \/ Key
  \/ RunsLoaded
  \/ RunsRefreshed
  \/ RunsTick
  \/ JobsLoaded
  \/ JobsTick
  \/ LogsLoaded
  \/ ActionResult
  \/ SearchDone
  \/ ConfirmResult
  \/ FilterResult

Spec == Init /\ [][Next]_vars

\* the log view: opening runs and jobs, tailing, attempts
LogKeys == {"enter", "esc", "j", "a"}

\* the user presses a key
KeyLog ==
  /\ ~quit
  /\ \E k \in LogKeys : Handle(KeyMsg(k), EmptyBag)

LogNext ==
  \/ KeyLog
  \/ RunsLoaded
  \/ JobsLoaded
  \/ JobsTick
  \/ LogsLoaded
  \/ JobLogLoaded
  \/ JobTailStatus
  \/ LogTailTick

LogSpec == Init /\ [][LogNext]_vars

(***************************************************************************)
(* Navigation: overlays, tab switches and the search, from the session in  *)
(* which the first run was opened and its jobs and logs arrived.           *)
(***************************************************************************)
\* the session s, a controller state a with the commands p in flight, after
\* the call of Update with msg; took is the bag of the command that posted it
After(s, msg, took) ==
  [a |-> Update(s.a, msg).a,
   p |-> (s.p (-) took) (+) BatchBag(Update(s.a, msg).cmds)]

\* the session after Init(), the first listing, enter on run 1, and the
\* jobs and logs the two fetches of that enter posted
OpenedRun(runsMsg, jobsMsg, logsMsg) ==
  After(After(After(After([a |-> NewApp, p |-> BatchBag(<<fetchWorkflows, fetchRuns>>)],
                          runsMsg, SetToBag({fetchRuns})),
                    KeyMsg("enter"), EmptyBag),
              jobsMsg, SetToBag({fetchJobs(1)})),
        logsMsg, SetToBag({fetchLogs(1)}))

NavInit ==
  /\ \E runsMsg \in {m \in Resolve(fetchRuns) : ~m.Err},
        jobsMsg \in {m \in Resolve(fetchJobs(1)) : ~m.Err},
        logsMsg \in {m \in Resolve(fetchLogs(1)) : ~m.Err} :
       /\ app = OpenedRun(runsMsg, jobsMsg, logsMsg).a
       /\ pending = OpenedRun(runsMsg, jobsMsg, logsMsg).p
  /\ quit = FALSE
  /\ steps = 0
  /\ MergeIdle
  /\ SideIdle

NavKeys == {"enter", "esc", "/", "y", "1", "2", "tab", "i"}

\* the user presses a key
KeyNav ==
  /\ ~quit
  /\ \E k \in NavKeys : Handle(KeyMsg(k), EmptyBag)

NavNext ==
  \/ KeyNav
  \/ JobsLoaded
  \/ JobsTick
  \/ LogsLoaded
  \/ SearchDone

NavSpec == NavInit /\ [][NavNext]_vars

(***************************************************************************)
(* The run list: paging, the multi-selection and the dialogs opened on it. *)
(***************************************************************************)
\* fetchRunsPage(page) posts ui.RunsPageMsg
RunsPage ==
  /\ ~quit
  /\ \E c \in InFlight("fetchRunsPage") :
       \E msg \in Resolve(c) : Handle(msg, SetToBag({c}))

\* the runs list posts NeedNextPageMsg for j on its last item
NeedNextPage ==
  /\ ~quit
  /\ \E c \in InFlight("needNextPage") :
       \E msg \in Resolve(c) : Handle(msg, SetToBag({c}))

ListKeys == {" ", "j", "right", "left", "d", "y", "S", "esc"}

\* the user presses a key
KeyList ==
  /\ ~quit
  /\ \E k \in ListKeys : Handle(KeyMsg(k), EmptyBag)

ListNext ==
  \/ KeyList
  \/ RunsLoaded
  \/ RunsPage
  \/ NeedNextPage
  \/ RunsRefreshed
  \/ RunsTick
  \/ ActionResult
  \/ ConfirmResult
  \/ FilterResult

ListSpec == Init /\ [][ListNext]_vars


(***************************************************************************)
(* The workflows and caches tabs: the dialogs opened on their lists.       *)
(***************************************************************************)
\* fetchWorkflows posts ui.WorkflowsLoadedMsg
WorkflowsLoaded ==
  /\ ~quit
  /\ \E c \in InFlight("fetchWorkflows") :
       \E msg \in Resolve(c) : Handle(msg, SetToBag({c}))

\* fetchActionsCaches posts ui.ActionsCachesLoadedMsg
ActionsCachesLoaded ==
  /\ ~quit
  /\ \E c \in InFlight("fetchActionsCaches") :
       \E msg \in Resolve(c) : Handle(msg, SetToBag({c}))

TargetKeys == {"2", "4", "d", "x", "y", "r"}

\* the user presses a key
KeyTarget ==
  /\ ~quit
  /\ \E k \in TargetKeys : Handle(KeyMsg(k), EmptyBag)

TargetNext ==
  \/ KeyTarget
  \/ WorkflowsLoaded
  \/ ActionsCachesLoaded
  \/ ConfirmResult
  \/ ActionResult

TargetSpec == Init /\ [][TargetNext]_vars
(***************************************************************************)
(* App.fetchLogs, src/internal/tui/app.go:305-408.                         *)
(***************************************************************************)
\* the zero attemptResult of make([]attemptResult, attempt)
ZeroResult == [att |-> 0, logs |-> NoLogs, err |-> FALSE]

\* what one attempt goroutine can leave in its slot: an error (download or
\* store failed), or logs (cache hit, or stored and read back; the read back
\* may fail, which leaves logs nil and err nil)
AttemptOutcomes(att) ==
  {[att |-> att, logs |-> NoLogs, err |-> TRUE]}
    \cup {[att |-> att, logs |-> l, err |-> FALSE] : l \in LogMaps}

MergeInit ==
  /\ app = NewApp
  /\ pending = EmptyBag
  /\ quit = FALSE
  /\ steps = 0
  /\ SideIdle
  /\ mAttempt \in 1..MaxMergeAttempt
  /\ results = [a \in 1..mAttempt |-> ZeroResult]
  /\ fetchPc = [a \in 1..mAttempt |-> "run"]
  /\ mergeIdx = 1
  /\ merged = NoLogs
  /\ lastErr = FALSE
  /\ mergeMsg = NoMsg

\* go func(att int) { ... results[att-1] = r }(att)
AttemptFetch(att) ==
  /\ fetchPc[att] = "run"
  /\ \E r \in AttemptOutcomes(att) : results' = [results EXCEPT ![att] = r]
  /\ fetchPc' = [fetchPc EXCEPT ![att] = "done"]
  /\ UNCHANGED <<mAttempt, mergeIdx, merged, lastErr, mergeMsg>>
  /\ UNCHANGED <<appVars, sideVars>>

\* a merge that lets a later attempt of equal length win
MergeReplacesOrEqual(m, k, v) ==
  k \notin DOMAIN m \/ Len(v) >= Len(m[k])

\* if existing, ok := merged[k]; !ok || len(v) > len(existing)
MergeReplaces(m, k, v) ==
  k \notin DOMAIN m \/ Len(v) > Len(m[k])

\* a merge that keeps only the logs of the attempt it reads last
MergeIntoLast(m, logs) == logs

\* for k, v := range r.logs { if ... { merged[k] = v } }
MergeInto(m, logs) ==
  [k \in DOMAIN m \cup DOMAIN logs |->
     IF k \in DOMAIN logs /\ MergeReplaces(m, k, logs[k]) THEN logs[k] ELSE m[k]]

\* a merge that records the error of every attempt
RecordsAnyErr(r, attempt) == TRUE

\* if r.att == attempt { lastErr = r.err }
RecordsErr(r, attempt) == r.att = attempt

\* a wait that returns while goroutines run
FetchedAny(pcs, attempt) == TRUE

\* wg.Wait() returns: every attempt goroutine called wg.Done()
Fetched(pcs, attempt) == \A a \in 1..attempt : pcs[a] = "done"

\* wg.Wait(), then one iteration of: for _, r := range results
MergeStep ==
  /\ Fetched(fetchPc, mAttempt)
  /\ mergeMsg = NoMsg
  /\ mergeIdx <= mAttempt
  /\ LET r == results[mergeIdx] IN
       IF r.err
         THEN /\ lastErr' = IF RecordsErr(r, mAttempt) THEN TRUE ELSE lastErr
              /\ UNCHANGED merged
         ELSE /\ merged' = MergeInto(merged, r.logs)
              /\ UNCHANGED lastErr
  /\ mergeIdx' = mergeIdx + 1
  /\ UNCHANGED <<mAttempt, results, fetchPc, mergeMsg>>
  /\ UNCHANGED <<appVars, sideVars>>

\* if len(merged) == 0 { return LogsLoadedMsg{Err: ...} }; return LogsLoadedMsg{Logs: merged}
MergeReturn ==
  /\ Fetched(fetchPc, mAttempt)
  /\ mergeMsg = NoMsg
  /\ mergeIdx > mAttempt
  /\ mergeMsg' =
       IF DOMAIN merged = {}
         THEN [type |-> "LogsLoadedMsg", attempt |-> mAttempt, logs |-> NoLogs,
               err |-> IF lastErr THEN "final attempt error" ELSE "no logs available"]
         ELSE [type |-> "LogsLoadedMsg", attempt |-> mAttempt, logs |-> merged,
               err |-> "nil"]
  /\ UNCHANGED <<mAttempt, results, fetchPc, mergeIdx, merged, lastErr>>
  /\ UNCHANGED <<appVars, sideVars>>

MergeNext ==
  \/ \E att \in 1..MaxMergeAttempt : att <= mAttempt /\ AttemptFetch(att)
  \/ MergeStep
  \/ MergeReturn

MergeSpec == MergeInit /\ [][MergeNext]_vars

\* the scheduler runs every attempt goroutine, a download returns or fails,
\* and the goroutine of the command runs the merge loop to its return
MergeFair ==
  /\ \A att \in 1..MaxMergeAttempt : WF_vars(att <= mAttempt /\ AttemptFetch(att))
  /\ WF_vars(MergeStep)
  /\ WF_vars(MergeReturn)

MergeLive == MergeInit /\ [][MergeNext]_vars /\ MergeFair

(***************************************************************************)
(* deleteIDsConcurrently, src/internal/tui/app.go:765-798, called by       *)
(* doBulkDeleteRuns and doBulkDeleteByIDs, and the status the controller   *)
(* shows for the ActionResultMsg it returns (app.go:1412-1422).  Worker i  *)
(* is the goroutine of ids[i-1]; an error value is named by the id whose   *)
(* DeleteRun returned it, 0 is nil.                                        *)
(***************************************************************************)
\* sem := make(chan struct{}, 3)
SemCap == 3

\* the action argument of the two callers
BulkActions == {"Bulk delete", "Delete selected"}

\* entry of deleteIDsConcurrently with n ids: deleted := 0, lastErr nil,
\* the channel empty, no goroutine started
BulkEntry(n, action) ==
  [n |-> n, action |-> action, pc |-> [i \in 1..n |-> "new"],
   calls |-> [i \in 1..n |-> 0], res |-> [i \in 1..n |-> "none"], sem |-> 0,
   deleted |-> 0, lastErr |-> 0, msg |-> NoMsg, status |-> NoStatus]

BulkInit ==
  /\ app = NewApp
  /\ pending = EmptyBag
  /\ quit = FALSE
  /\ steps = 0
  /\ MergeIdle
  /\ cache = NoCache
  /\ twin = NoTwin
  /\ engine = NoEngine
  /\ ops = NoOps
  /\ \E n \in 0..MaxBulkIds, action \in BulkActions : bulk = BulkEntry(n, action)

BulkFrame == UNCHANGED <<appVars, mergeVars, cache, twin, engine, ops>>

\* for _, id := range ids { wg.Add(1); go func(id int64) {...}(id) }
Spawn(i) ==
  /\ i <= bulk.n
  /\ bulk.pc[i] = "new"
  /\ \A j \in 1..(i - 1) : bulk.pc[j] # "new"
  /\ bulk' = [bulk EXCEPT !.pc[i] = "wait"]
  /\ BulkFrame

\* a send on the channel that takes every sender
SemFreeAlways(b) == TRUE

\* sem <- struct{}{} goes through while the channel holds fewer than 3
SemFree(b) == b.sem < SemCap

\* sem <- struct{}{}
Acquire(i) ==
  /\ i <= bulk.n
  /\ bulk.pc[i] = "wait"
  /\ SemFree(bulk)
  /\ bulk' = [bulk EXCEPT !.sem = @ + 1, !.pc[i] = "call"]
  /\ BulkFrame

\* err := client.DeleteRun(id): the request returns, with or without error
DeleteRun(i) ==
  /\ i <= bulk.n
  /\ bulk.pc[i] = "call"
  /\ \E r \in {"ok", "err"} :
       bulk' = [bulk EXCEPT !.calls[i] = @ + 1, !.res[i] = r, !.pc[i] = "record"]
  /\ BulkFrame

\* mu.Lock(); lastErr = err (or deleted++); mu.Unlock()
Record(i) ==
  /\ i <= bulk.n
  /\ bulk.pc[i] = "record"
  /\ bulk' = IF bulk.res[i] = "err"
               THEN [bulk EXCEPT !.lastErr = i, !.pc[i] = "release"]
               ELSE [bulk EXCEPT !.deleted = @ + 1, !.pc[i] = "release"]
  /\ BulkFrame

\* the deferred calls: <-sem, then wg.Done()
Release(i) ==
  /\ i <= bulk.n
  /\ bulk.pc[i] = "release"
  /\ bulk' = [bulk EXCEPT !.sem = @ - 1, !.pc[i] = "done"]
  /\ BulkFrame

\* a return that does not wait for the workers
NotWaited(b) == TRUE

\* wg.Wait() returns: every goroutine was started and called wg.Done()
Waited(b) == \A i \in 1..b.n : b.pc[i] = "done"

\* fmt.Sprintf("%s (%d/%d deleted)", action, deleted, len(ids))
SummaryOfTotal(action, deleted, total) == <<action, " (", deleted, "/", total, " deleted)">>

\* fmt.Sprintf("%s (%d runs)", action, deleted)
SummaryOfRuns(action, deleted) == <<action, " (", deleted, " runs)">>

\* if lastErr != nil { return ActionResultMsg{Action, Err} }; return ActionResultMsg{Action}
BulkReturn ==
  /\ bulk.msg = NoMsg
  /\ Waited(bulk)
  /\ bulk' = [bulk EXCEPT !.msg =
       IF bulk.lastErr # 0
         THEN [type |-> "ActionResultMsg",
               Action |-> SummaryOfTotal(bulk.action, bulk.deleted, bulk.n),
               Err |-> bulk.lastErr]
         ELSE [type |-> "ActionResultMsg",
               Action |-> SummaryOfRuns(bulk.action, bulk.deleted),
               Err |-> 0]]
  /\ BulkFrame

\* case ui.ActionResultMsg: a.status = fmt.Sprintf("Error: %v", msg.Err), or
\* fmt.Sprintf("%s: success", msg.Action); the status is the format and the
\* values written into it, a value that is not written is left empty
ActionStatus(msg) ==
  IF msg.Err # 0
    THEN [format |-> "Error: %v", Action |-> <<>>, Err |-> msg.Err]
    ELSE [format |-> "%s: success", Action |-> msg.Action, Err |-> 0]

\* the controller receives the result of the bulk delete
BulkReport ==
  /\ bulk.msg # NoMsg
  /\ bulk.status = NoStatus
  /\ bulk' = [bulk EXCEPT !.status = ActionStatus(bulk.msg)]
  /\ BulkFrame

Worker(i) == Spawn(i) \/ Acquire(i) \/ DeleteRun(i) \/ Record(i) \/ Release(i)

BulkNext ==
  \/ \E i \in 1..MaxBulkIds : Spawn(i)
  \/ \E i \in 1..MaxBulkIds : Acquire(i)
  \/ \E i \in 1..MaxBulkIds : DeleteRun(i)
  \/ \E i \in 1..MaxBulkIds : Record(i)
  \/ \E i \in 1..MaxBulkIds : Release(i)
  \/ BulkReturn
  \/ BulkReport

BulkSpec == BulkInit /\ [][BulkNext]_vars

\* the scheduler runs every goroutine that can take a step, a request that
\* was sent returns, and Bubble Tea delivers the message of a command
BulkFair ==
  /\ \A i \in 1..MaxBulkIds : WF_vars(Worker(i))
  /\ WF_vars(BulkReturn)
  /\ WF_vars(BulkReport)

BulkLive == BulkInit /\ [][BulkNext]_vars /\ BulkFair

(***************************************************************************)
(* LogCache, src/internal/cache/logs.go, and the background tasks that     *)
(* read and fill it: App.fetchLogsForAttempt (app.go:257-303) and the      *)
(* attempt goroutine of App.fetchLogs (app.go:324-376), which take the     *)
(* same steps.  A task is started for one entry when Bubble Tea runs the   *)
(* command; Update starts one without looking at the tasks that run.       *)
(***************************************************************************)
\* the file exists
IsFile(file) == file.mtime >= 0

\* LogCache.HasRun: os.Stat(dir) succeeds and time.Since(info.ModTime()) < lc.ttl
HasRun(c, e) == c.dirs[e] >= 0 /\ c.now - c.dirs[e] < TTL

\* the root-level .txt files of the entry
RootLogs(c, e) == {n \in LogNames : IsFile(c.files[<<e, n>>])}

\* LogCache.GetAllJobLogs: logs[parseRootLogName(name)] = os.ReadFile(name)
GetAllJobLogs(c, e) ==
  [j \in {parseRootLogName(n) : n \in RootLogs(c, e)} |->
     c.files[<<e, CHOOSE n \in RootLogs(c, e) : parseRootLogName(n) = j>>].data]

CacheInit ==
  /\ app = NewApp
  /\ pending = EmptyBag
  /\ quit = FALSE
  /\ steps = 0
  /\ MergeIdle
  /\ bulk = NoBulk
  /\ cache = NoCache
  /\ twin = NoTwin
  /\ engine = NoEngine
  /\ ops = NoOps

CacheFrame == UNCHANGED <<appVars, mergeVars, bulk, twin, engine, ops>>

\* time passes
Tick ==
  /\ cache.now < MaxClock
  /\ cache' = [cache EXCEPT !.now = @ + 1]
  /\ CacheFrame

\* Bubble Tea runs the command of a log fetch for entry e
StartFetch(t, e) ==
  /\ cache.tasks[t].pc = "idle"
  /\ \E readable \in BOOLEAN :
       cache' = [cache EXCEPT !.tasks[t] =
                   [NoTask EXCEPT !.pc = "check", !.e = e, !.readable = readable]]
  /\ CacheFrame

\* the error of the cache read of a task: GetAllJobLogs returns
\* fmt.Errorf("read run dir: %w", err) when os.ReadDir fails, and the caller
\* takes a read with len(logs) = 0 the same way
CacheError(c, task) ==
  IF ~task.readable THEN "read run dir"
  ELSE IF DOMAIN GetAllJobLogs(c, task.e) = {} THEN "no logs"
  ELSE ""

\* a check that is never served from the cache
CacheHitNever(c, task) == FALSE

\* if HasRun(runID, att) { if logs, err := GetAllJobLogs(...); err == nil && len(logs) > 0
CacheHit(c, task) == HasRun(c, task.e) /\ CacheError(c, task) = ""

\* a check that returns the cache error as the result of the fetch
CacheFail(task, cerr) == [task EXCEPT !.pc = "done", !.err = TRUE, !.cerr = cerr]

\* the inner if fails on a cache error: the check falls through to
\* "// Download from API"
CacheMiss(task, cerr) == [task EXCEPT !.pc = "download", !.cerr = cerr]

\* the cache check of fetchLogsForAttempt and of the attempt goroutine of
\* fetchLogs: a hit returns the logs read, anything else goes on to download
CacheCheck(t) ==
  /\ cache.tasks[t].pc = "check"
  /\ cache' =
       IF CacheHit(cache, cache.tasks[t])
         THEN [cache EXCEPT !.tasks[t].pc = "done", !.tasks[t].hit = TRUE,
                            !.tasks[t].logs = GetAllJobLogs(cache, cache.tasks[t].e)]
       ELSE IF HasRun(cache, cache.tasks[t].e)
         THEN [cache EXCEPT !.tasks[t] = CacheMiss(@, CacheError(cache, cache.tasks[t]))]
         ELSE [cache EXCEPT !.tasks[t].pc = "download"]
  /\ CacheFrame

\* DownloadRunLogs / DownloadRunAttemptLogs, then io.ReadAll and zip.NewReader
\* of StoreRunLogs: an error returns before anything is written
Download(t) ==
  /\ cache.tasks[t].pc = "download"
  /\ \E ok \in BOOLEAN :
       cache' = IF ok THEN [cache EXCEPT !.tasks[t].pc = "open"]
                      ELSE [cache EXCEPT !.tasks[t].pc = "done", !.tasks[t].err = TRUE]
  /\ CacheFrame

\* StoreRunLogs: os.MkdirAll(dir, 0o755)
MkdirAll(t) ==
  /\ cache.tasks[t].pc = "open"
  /\ cache' = [cache EXCEPT
       !.dirs[cache.tasks[t].e] = IF @ < 0 THEN cache.now ELSE @,
       !.tasks[t].pc = "create", !.tasks[t].idx = 1]
  /\ CacheFrame

\* the file the task is at
CurrentFile(task) == <<task.e, LogSeq[task.idx]>>

\* StoreRunLogs: out, err := os.Create(localPath); a new file changes the
\* directory, an existing one is truncated
Create(t) ==
  /\ cache.tasks[t].pc = "create"
  /\ cache' = [cache EXCEPT
       !.files[CurrentFile(cache.tasks[t])] = [mtime |-> cache.now, data |-> ""],
       !.dirs[cache.tasks[t].e] =
          IF IsFile(cache.files[CurrentFile(cache.tasks[t])]) THEN @ ELSE cache.now,
       !.tasks[t].pc = "copy"]
  /\ CacheFrame

\* StoreRunLogs: _, err = io.Copy(out, rc); if err != nil { return nil, err };
\* after the last file StoreRunLogs returns nil
Copy(t) ==
  /\ cache.tasks[t].pc = "copy"
  /\ \E ok \in BOOLEAN :
       cache' =
         IF ~ok
           THEN [cache EXCEPT
                   !.files[CurrentFile(cache.tasks[t])] = [mtime |-> cache.now, data |-> "part"],
                   !.tasks[t].pc = "done", !.tasks[t].err = TRUE]
         ELSE IF cache.tasks[t].idx < Len(LogSeq)
           THEN [cache EXCEPT
                   !.files[CurrentFile(cache.tasks[t])] =
                      [mtime |-> cache.now, data |-> ContentOf(LogSeq[cache.tasks[t].idx])],
                   !.tasks[t].pc = "create", !.tasks[t].idx = @ + 1]
           ELSE [cache EXCEPT
                   !.files[CurrentFile(cache.tasks[t])] =
                      [mtime |-> cache.now, data |-> ContentOf(LogSeq[cache.tasks[t].idx])],
                   !.stored[cache.tasks[t].e] = TRUE,
                   !.tasks[t].pc = "meta"]
  /\ CacheFrame

\* LogCache.WriteMeta: os.WriteFile(path, data, 0644), the error is dropped
WriteMeta(t) ==
  /\ cache.tasks[t].pc = "meta"
  /\ cache' = [cache EXCEPT
       !.files[<<cache.tasks[t].e, MetaName>>] = [mtime |-> cache.now, data |-> ContentOf(MetaName)],
       !.dirs[cache.tasks[t].e] =
          IF IsFile(cache.files[<<cache.tasks[t].e, MetaName>>]) THEN @ ELSE cache.now,
       !.tasks[t].pc = "read"]
  /\ CacheFrame

\* if logs, err := GetAllJobLogs(runID, att); err == nil { r.logs = logs }
ReadBack(t) ==
  /\ cache.tasks[t].pc = "read"
  /\ cache' = [cache EXCEPT !.tasks[t].pc = "done",
                            !.tasks[t].logs = GetAllJobLogs(cache, cache.tasks[t].e)]
  /\ CacheFrame

\* Evict: the files filepath.Walk finds
Existing(c) == {f \in FileIds : IsFile(c.files[f])}

\* totalSize += info.Size() over the files of S
RECURSIVE TotalSize(_, _)
TotalSize(c, S) ==
  IF S = {} THEN 0
  ELSE LET f == CHOOSE x \in S : TRUE
       IN SizeOf(c.files[f].data) + TotalSize(c, S \ {f})

\* an expiry that takes a file of age TTL as expired
ExpiredAtTTL(c, f) == c.now - c.files[f].mtime >= TTL

\* Evict: now.Sub(e.modTime) > lc.ttl
Expired(c, f) == c.now - c.files[f].mtime > TTL

\* Evict: a file sort.Slice by modTime.Before can put first
Oldest(c, S) == {f \in S : \A g \in S : c.files[f].mtime <= c.files[g].mtime}

\* Evict: the second sweep over the sorted entries, from the files S that
\* are left; the sets of files it can leave
RECURSIVE CapSweep(_, _)
CapSweep(c, S) ==
  IF S = {} \/ TotalSize(c, S) <= MaxSize THEN {S}
  ELSE UNION {CapSweep(c, S \ {f}) : f \in Oldest(c, S)}

\* the tasks between os.MkdirAll of StoreRunLogs and the return of WriteMeta
Writers(c) == {t \in 1..NumTasks : c.tasks[t].pc \in {"open", "create", "copy", "meta"}}

\* the cache after os.Remove of the files of gone, ttl of them in the first sweep
Removed(c, gone, ttl) ==
  [c EXCEPT
     !.files = [f \in FileIds |-> IF f \in gone THEN NoFile ELSE c.files[f]],
     !.dirs = [e \in Entries |-> IF \E f \in gone : f[1] = e THEN c.now ELSE c.dirs[e]],
     !.evicts = @ + 1,
     !.swept = [ttl |-> ttl, cap |-> Cardinality(gone) - ttl,
                 writers |-> Cardinality(Writers(c))]]

\* LogCache.Evict
Evict ==
  /\ cache.evicts < MaxEvicts
  /\ \E keep \in CapSweep(cache, {f \in Existing(cache) : ~Expired(cache, f)}) :
       cache' = Removed(cache, Existing(cache) \ keep,
                        Cardinality({f \in Existing(cache) : Expired(cache, f)}))
  /\ CacheFrame

CacheNext ==
  \/ Tick
  \/ \E t \in 1..NumTasks, e \in Entries : StartFetch(t, e)
  \/ \E t \in 1..NumTasks : CacheCheck(t)
  \/ \E t \in 1..NumTasks : Download(t)
  \/ \E t \in 1..NumTasks : MkdirAll(t)
  \/ \E t \in 1..NumTasks : Create(t)
  \/ \E t \in 1..NumTasks : Copy(t)
  \/ \E t \in 1..NumTasks : WriteMeta(t)
  \/ \E t \in 1..NumTasks : ReadBack(t)
  \/ Evict

CacheSpec == CacheInit /\ [][CacheNext]_vars

\* the entry directories the task of a log fetch command stores into when it
\* misses the cache: fetchLogs starts one goroutine for each attempt of the
\* run, fetchLogsForAttempt (att > 0) fetches one attempt
FetchTargets(c) ==
  IF c.c # "fetchLogs" THEN {}
  ELSE IF c.att = 0 THEN {<<c.run, att>> : att \in 1..RunAttemptOf(c.run)}
  ELSE {<<c.run, c.att>>}

(***************************************************************************)
(* Two copies of one session state, each given the same message: App is a  *)
(* value (func (a App) Update), so a copy is the state itself, and what a  *)
(* call returns is the new state and the commands.  The session is a run   *)
(* opened in the jobs pane; the archive of the run can hold the log of a   *)
(* job under the name of each of its matrix variants.                      *)
(***************************************************************************)
\* the job names of the archives of these sessions
TwinNames == JobNames \cup {"build (x86)"}

\* fetchLogs posts the archive of run 1
TwinLogs ==
  {[type |-> "LogsLoadedMsg", RunID |-> 1, Attempt |-> RunAttemptOf(1), Err |-> FALSE,
    Logs |-> [k \in D |-> LogText(1, RunAttemptOf(1), k)]] : D \in SUBSET TwinNames}

\* the sessions: the first listing, enter on run 1, its jobs, its logs
TwinSessions ==
  {OpenedRun(runsMsg, jobsMsg, logsMsg).a :
     runsMsg \in {m \in Resolve(fetchRuns) : ~m.Err},
     jobsMsg \in {m \in Resolve(fetchJobs(1)) : ~m.Err},
     logsMsg \in TwinLogs}

\* the keys the copies are given
TwinKeys == {"enter", "esc", "/", "i"}

TwinInit ==
  /\ app = NewApp
  /\ pending = EmptyBag
  /\ quit = FALSE
  /\ steps = 0
  /\ MergeIdle
  /\ bulk = NoBulk
  /\ cache = NoCache
  /\ engine = NoEngine
  /\ ops = NoOps
  /\ \E a \in TwinSessions, k \in TwinKeys :
       twin = [NoTwin EXCEPT !.a = a, !.msg = KeyMsg(k)]

\* copy i is given the message: newModel, cmd := a.Update(msg)
TwinUpdate(i) ==
  /\ ~twin.called[i]
  /\ \E r \in Updates(twin.a, twin.msg) :
       twin' = [twin EXCEPT !.called[i] = TRUE, !.r[i] = [a |-> r.a, cmds |-> r.cmds]]
  /\ UNCHANGED <<appVars, mergeVars, bulk, cache, engine, ops>>

TwinNext == \E i \in 1..2 : TwinUpdate(i)

TwinSpec == TwinInit /\ [][TwinNext]_vars

(***************************************************************************)
(* search.Engine, src/internal/search/engine.go.  A string is the sequence *)
(* of its characters; a log is lines of "e" and "E" joined by "\n"; a      *)
(* pattern is made of "e", "E", the regular expression "." and "(", which  *)
(* alone does not compile.                                                 *)
(***************************************************************************)
\* the longest log content and the longest pattern
MaxContent == 2

MaxPattern == 2

LogChars == {"e", "E", "\n"}

PatternChars == {"e", "E", ".", "("}

\* the strings over S of at most n characters
Strings(S, n) == UNION {[1..k -> S] : k \in 0..n}

\* the JobPattern values: none, one that matches the arm job, one that
\* does not compile
JobPatterns == {"", "arm", "("}

\* unicode.ToLower on the characters of the model
ToLowerRune(ch) == IF ch = "E" THEN "e" ELSE ch

\* strings.ToLower(s)
ToLower(s) == [i \in 1..Len(s) |-> ToLowerRune(s[i])]

\* strings.Contains(s, substr) on sequences of characters
StringsContains(s, substr) ==
  \E off \in 0..(Len(s) - Len(substr)) : \A i \in 1..Len(substr) : s[off + i] = substr[i]

\* strings.Split(s, "\n"): the text before the first "\n", then the split
\* of the rest; a string without "\n" is one line
RECURSIVE Split(_)
Split(s) ==
  IF \A i \in 1..Len(s) : s[i] # "\n" THEN <<s>>
  ELSE LET nl == CHOOSE i \in 1..Len(s) : s[i] = "\n" /\ \A j \in 1..(i - 1) : s[j] # "\n"
       IN <<SubSeq(s, 1, nl - 1)>> \o Split(SubSeq(s, nl + 1, Len(s)))

\* regexp.Compile(expr) returns an error: a group that is not closed
CompileError(expr) == \E i \in 1..Len(expr) : expr[i] = "("

\* one character of a compiled expression against one character of the
\* text; fold is the flag (?i)
ReMatchRune(pc, ch, fold) ==
  \/ pc = "."
  \/ pc = ch
  \/ fold /\ ToLowerRune(pc) = ToLowerRune(ch)

\* Regexp.MatchString(line): the expression matches at some offset
MatchString(expr, line, fold) ==
  \E off \in 0..(Len(line) - Len(expr)) :
    \A i \in 1..Len(expr) : ReMatchRune(expr[i], line[off + i], fold)

\* regexp.MatchString(query.JobPattern, jobName) on the job names and the
\* patterns of the model; an error is no match
JobPatternMatched(pattern, jobName) == pattern = "arm" /\ jobName = "build (arm)"

\* buildMatcher returns an error
MatcherError(query) == query.IsRegex /\ CompileError(query.Pattern)

\* a matcher that compares the line as it is
MatcherExact(query, line) ==
  IF query.IsRegex THEN MatchString(query.Pattern, line, FALSE)
  ELSE StringsContains(line, query.Pattern)

\* the function buildMatcher returns, applied to line
Matcher(query, line) ==
  IF query.IsRegex THEN MatchString(query.Pattern, line, ~query.CaseSensitive)
  ELSE IF query.CaseSensitive THEN StringsContains(line, query.Pattern)
  ELSE StringsContains(ToLower(line), ToLower(query.Pattern))

\* the job is skipped: if query.FailedOnly && failedJobs != nil &&
\* !failedJobs[jobName], or query.JobPattern does not match
Skipped(query, failedJobs, jobName) ==
  \/ query.FailedOnly /\ ~failedJobs.isNil /\ jobName \notin failedJobs.jobs
  \/ query.JobPattern # "" /\ ~JobPatternMatched(query.JobPattern, jobName)

\* a line number that counts from 0
LineIndex(i) == i

\* Line: i + 1
LineNumber(i) == i + 1

\* for i, line := range lines, from index i on
RECURSIVE ScanLines(_, _, _, _, _)
ScanLines(res, query, jobName, lines, i) ==
  IF i >= Len(lines) THEN res
  ELSE ScanLines(
         IF Matcher(query, lines[i + 1])
           THEN [res EXCEPT
                   !.Matches = Append(@, [JobName |-> jobName, Line |-> LineNumber(i),
                                          Content |-> lines[i + 1]]),
                   !.JobCounts[jobName] = @ + 1,
                   !.TotalCount = @ + 1]
           ELSE res,
         query, jobName, lines, i + 1)

\* results := &model.SearchResults{Query: query, JobCounts: make(map[string]int)};
\* a job the map does not hold counts 0
NewResults == [Matches |-> <<>>, JobCounts |-> [j \in JobNames |-> 0], TotalCount |-> 0]

\* a nil map, and the map of the failed jobs S
NilJobs == [isNil |-> TRUE, jobs |-> {}]

FailedJobs(S) == [isNil |-> FALSE, jobs |-> S]

\* the logs, the queries and the failedJobs arguments of the calls
SearchLogs == UNION {[D -> Strings(LogChars, MaxContent)] : D \in SUBSET JobNames}

SearchQueries ==
  [Pattern : Strings(PatternChars, MaxPattern), IsRegex : BOOLEAN, CaseSensitive : BOOLEAN,
   FailedOnly : BOOLEAN, JobPattern : JobPatterns]

FailedJobsArgs == {NilJobs, FailedJobs({"build"})}

\* entry of SearchWithFilter(logs, query, runID, attempt, failedJobs)
SearchInit ==
  /\ app = NewApp
  /\ pending = EmptyBag
  /\ quit = FALSE
  /\ steps = 0
  /\ MergeIdle
  /\ bulk = NoBulk
  /\ cache = NoCache
  /\ twin = NoTwin
  /\ ops = NoOps
  /\ \E logs \in SearchLogs, query \in SearchQueries, failedJobs \in FailedJobsArgs :
       /\ query.FailedOnly \/ failedJobs = NilJobs
       /\ engine = [pc |-> "build", logs |-> logs, query |-> query,
                    failedJobs |-> failedJobs, todo |-> DOMAIN logs,
                    results |-> NewResults]

SearchFrame == UNCHANGED <<appVars, mergeVars, bulk, cache, twin, ops>>

\* matcher, err := buildMatcher(query); if err != nil { return results }
BuildMatcher ==
  /\ engine.pc = "build"
  /\ engine' = [engine EXCEPT !.pc = IF MatcherError(engine.query) THEN "done" ELSE "range"]
  /\ SearchFrame

\* for jobName, content := range logs: one job, in the order of the map
RangeJob(jobName) ==
  /\ engine.pc = "range"
  /\ jobName \in engine.todo
  /\ engine' =
       [engine EXCEPT
          !.todo = @ \ {jobName},
          !.results = IF Skipped(engine.query, engine.failedJobs, jobName) THEN @
                      ELSE ScanLines(@, engine.query, jobName,
                                     Split(engine.logs[jobName]), 0)]
  /\ SearchFrame

\* return results
SearchReturn ==
  /\ engine.pc = "range"
  /\ engine.todo = {}
  /\ engine' = [engine EXCEPT !.pc = "done"]
  /\ SearchFrame

SearchNext ==
  \/ BuildMatcher
  \/ \E jobName \in JobNames : RangeJob(jobName)
  \/ SearchReturn

SearchSpec == SearchInit /\ [][SearchNext]_vars

(***************************************************************************)
(* ops.BulkDeleteRuns, src/internal/ops/bulk.go:52-82: the sequential bulk *)
(* delete.  An ID is named by its position in runIDs; the context can be   *)
(* cancelled at any time while the call runs.  The onProgress callback is  *)
(* outside the model.                                                      *)
(***************************************************************************)
\* the longest list of IDs, and the most deletes that fail in one call
MaxOpsIds == 21

MaxOpsFailed == 2

\* if (i+1)%10 == 0 { time.Sleep(2 * time.Second) }
PauseEvery == 10

\* entry of BulkDeleteRuns with n IDs: result := &BulkDeleteResult{}
OpsEntry(n) ==
  [pc |-> "select", n |-> n, i |-> 0, cancelled |-> FALSE,
   Completed |-> 0, Failed |-> 0, Errors |-> <<>>, attempted |-> <<>>, slept |-> <<>>,
   err |-> "nil"]

OpsInit ==
  /\ app = NewApp
  /\ pending = EmptyBag
  /\ quit = FALSE
  /\ steps = 0
  /\ MergeIdle
  /\ bulk = NoBulk
  /\ cache = NoCache
  /\ twin = NoTwin
  /\ engine = NoEngine
  /\ \E n \in 0..MaxOpsIds : ops = OpsEntry(n)

OpsFrame == UNCHANGED <<appVars, mergeVars, bulk, cache, twin, engine>>

\* the caller cancels the context
Cancel ==
  /\ ops.pc \in {"select", "delete", "sleep"}
  /\ ~ops.cancelled
  /\ ops' = [ops EXCEPT !.cancelled = TRUE]
  /\ OpsFrame

\* a loop that does not look at the context
DoneNever(o) == FALSE

\* case <-ctx.Done()
Done(o) == o.cancelled

\* the top of the loop: select { case <-ctx.Done(): return result, ctx.Err();
\* default: }; after the last ID, return result, nil
Select ==
  /\ ops.pc = "select"
  /\ ops' = IF ops.i >= ops.n THEN [ops EXCEPT !.pc = "done"]
            ELSE IF Done(ops) THEN [ops EXCEPT !.pc = "done", !.err = "ctx"]
            ELSE [ops EXCEPT !.pc = "delete"]
  /\ OpsFrame

\* (i+1)%10 == 0
PauseDue(i) == (i + 1) % PauseEvery = 0

\* err := client.DeleteRun(id), then result.Failed++ and the error is
\* appended, or result.Completed++
DeleteOne ==
  /\ ops.pc = "delete"
  /\ \E ok \in {TRUE, ops.Failed >= MaxOpsFailed} :
       ops' = [ops EXCEPT
                 !.attempted = Append(@, ops.i + 1),
                 !.Completed = IF ok THEN @ + 1 ELSE @,
                 !.Failed = IF ok THEN @ ELSE @ + 1,
                 !.Errors = IF ok THEN @ ELSE Append(@, ops.i + 1),
                 !.pc = IF PauseDue(ops.i) THEN "sleep" ELSE "select",
                 !.i = IF PauseDue(ops.i) THEN @ ELSE @ + 1]
  /\ OpsFrame

\* time.Sleep(2 * time.Second) returns
Sleep ==
  /\ ops.pc = "sleep"
  /\ ops' = [ops EXCEPT !.slept = Append(@, ops.i + 1), !.i = @ + 1, !.pc = "select"]
  /\ OpsFrame

OpsNext == Cancel \/ Select \/ DeleteOne \/ Sleep

OpsSpec == OpsInit /\ [][OpsNext]_vars

(***************************************************************************)
(* C10: the merged log of a job is the content of the lowest-numbered      *)
(* attempt among the successfully fetched attempts whose content for that  *)
(* job has maximal length.                                                 *)
(***************************************************************************)
\* the attempts below n that were fetched without error and hold job k
AttemptsWith(k, n) ==
  {a \in 1..(n - 1) : ~results[a].err /\ k \in DOMAIN results[a].logs}

\* the lowest attempt of S whose content for k is not shorter than any other
FirstLongest(k, S) ==
  CHOOSE a \in S :
    /\ \A b \in S : Len(results[b].logs[k]) <= Len(results[a].logs[k])
    /\ \A b \in S : Len(results[b].logs[k]) = Len(results[a].logs[k]) => a <= b

\* C10: after the merge loop has passed attempts 1..mergeIdx-1, and in the
\* message returned, the merged log of every job name is the content of the
\* lowest-numbered successful attempt of maximal length for that name; a
\* name no successful attempt holds is not in the map.
C10_MergedIsFirstLongest ==
  /\ \A k \in JobNames :
       LET S == AttemptsWith(k, mergeIdx) IN
         /\ (k \in DOMAIN merged) <=> (S # {})
         /\ S # {} => merged[k] = results[FirstLongest(k, S)].logs[k]
  /\ (mergeMsg # NoMsg /\ mergeMsg.err = "nil") => mergeMsg.logs = merged

\* C10 witness: attempt 1 holds "ab", attempt 2 the equally long "cd",
\* attempt 3 the shorter stub "s"; the merge returned "ab".
C10_Witness ==
  /\ mAttempt = 3
  /\ mergeMsg # NoMsg
  /\ \A a \in 1..3 : ~results[a].err /\ "build" \in DOMAIN results[a].logs
  /\ results[1].logs["build"] = "ab"
  /\ results[2].logs["build"] = "cd"
  /\ results[3].logs["build"] = "s"
  /\ mergeMsg.logs["build"] = "ab"

(***************************************************************************)
(* Properties of the session controller.                                   *)
(***************************************************************************)
\* the overlays of a controller value that are active
ActiveOverlays(a) ==
  {o \in {"log", "info", "search", "filter", "confirm"} :
     CASE o = "log" -> a.logFullScreen
       [] o = "info" -> a.infoFullScreen
       [] o = "search" -> a.searchView.active
       [] o = "filter" -> a.filterOverlay.active
       [] OTHER -> a.confirmDialog.active}

\* C1: in every reachable state at most one of the overlays log full-screen,
\* info full-screen, search, filter form and confirm dialog is active.
C1_AtMostOneOverlay == Cardinality(ActiveOverlays(app)) <= 1

\* the result r of a call of Update leaves the controller as it is and
\* emits no command
NoEffect(r) == r.a = app /\ r.cmds = <<>> /\ ~r.quit

\* the status checks in flight for a job that is not the one being tailed
StaleTailStatus ==
  {c \in BagToSet(pending) :
     c.c = "checkJobStatus" /\ app.tailingJobID # 0 /\ c.job # app.tailingJobID}

\* C2: while job X is tailed, a JobTailStatus result for another job Y
\* changes nothing of the controller (log view, tailing target, viewingJob,
\* status) and emits no command, whatever the result says.
C2_StaleTailStatusIgnored ==
  \A c \in StaleTailStatus : \A m \in Resolve(c) : NoEffect(Update(app, m))

\* C2 witness: job X is tailed in the log overlay while the status check of
\* a job tailed before is still in flight.
C2_Witness ==
  /\ StaleTailStatus # {}
  /\ app.logFullScreen
  /\ app.logView.tailing

\* the jobs fetches in flight for a run that is not the run of the details pane
StaleJobsFetch ==
  {c \in BagToSet(pending) :
     c.c = "fetchJobs" /\ app.detailsView.run # NoRun /\ c.run # app.detailsView.run}

\* the details pane after the call of Update that returned r
DetailsAfter(r) == r.a.detailsView

\* C3: a JobsLoaded result issued for a run other than the run shown in the
\* details pane is dropped: the jobs list, the job cursor and the loading
\* state of the details pane stay as they are.
C3_StaleJobsLoadedDropped ==
  \A c \in StaleJobsFetch : \A m \in Resolve(c) :
     DetailsAfter(Update(app, m)) = app.detailsView

\* the (run, attempt) pairs the entries of a log map were produced by
Scopes(logs) == {<<logs[k].run, logs[k].att>> : k \in DOMAIN logs}

\* the log fetches in flight for a run that is not the run selected
\* into the details pane
StaleLogFetch ==
  {c \in BagToSet(pending) :
     /\ c.c \in {"fetchLogs", "fetchJobLog"}
     /\ app.detailsView.run # NoRun
     /\ (IF c.c = "fetchLogs" THEN c.run ELSE JobRunOf(c.job)) # app.detailsView.run}

\* the log map after the call of Update that returned r
LogsAfter(r) == r.a.currentRunLogs

\* C4: all entries of currentRunLogs belong to one (run, attempt), and no
\* LogsLoaded or single-job log result issued for a run that is not the
\* selected run puts its content into the map.
C4_LogsSingleScope ==
  /\ Cardinality(Scopes(app.currentRunLogs)) <= 1
  /\ \A c \in StaleLogFetch : \A m \in Resolve(c) :
       LogsAfter(Update(app, m)) = app.currentRunLogs

\* the run-listing fetches in flight: fresh load, refresh and page fetch
ListingInFlight ==
  {c \in BagToSet(pending) : c.c \in {"fetchRuns", "refreshCurrentRuns", "fetchRunsPage"}}

\* the call of Update that returned r dispatched a refresh of the listing
DispatchesRefresh(r) == \E i \in 1..Len(r.cmds) : r.cmds[i].c = "refreshCurrentRuns"

\* C5: runsLoading is true in every state in which a run-listing fetch is in
\* flight, so a run-list tick delivered while a listing fetch is in flight
\* dispatches no refresh.
C5_LoadingWhileListing ==
  ListingInFlight # {} =>
    /\ app.runsLoading
    /\ \A c \in BagToSet(pending) :
         c.c = "scheduleRunsRefresh" =>
           \A m \in Resolve(c) : ~DispatchesRefresh(Update(app, m))

\* the call of Update that returned r dispatched a command of one of the kinds
Dispatches(r, kinds) == \E i \in 1..Len(r.cmds) : r.cmds[i].c \in kinds

\* C6: the run-list refresher never stops: a RunsTick delivered in any
\* reachable state, whatever view, overlay or dialog is open, leaves a refresh
\* fetch or a new tick pending, and a refresh result leaves a new tick pending.
C6_RunsTickReschedules ==
  ~quit =>
    \A c \in BagToSet(pending) :
      /\ c.c = "scheduleRunsRefresh" =>
           \A m \in Resolve(c) :
             Dispatches(Update(app, m), {"refreshCurrentRuns", "scheduleRunsRefresh"})
      /\ c.c = "refreshCurrentRuns" =>
           \A m \in Resolve(c) : Dispatches(Update(app, m), {"scheduleRunsRefresh"})

\* the jobs ticks and jobs fetches in flight for the run that is polled
JobsPolling ==
  {c \in BagToSet(pending) :
     c.c \in {"scheduleJobsRefresh", "fetchJobs"} /\ c.run = app.autoRefreshRunID}

\* C7: while a run in progress is polled in the Runs view (autoRefreshRunID
\* is set by selecting it into the jobs pane or by the info overlay), a jobs
\* tick or a jobs fetch for that run is pending, whatever dialog or overlay
\* has been opened or closed meanwhile.
C7_JobsPollingContinues ==
  (~quit /\ app.currentView = "ViewRuns" /\ app.autoRefreshRunID # NoRun) =>
    JobsPolling # {}

\* the job a command polls, by tick or by status check
IsTailPoll(c) == c.c \in {"scheduleLogRefresh", "checkJobStatus"}

\* the run a command polls, by tick or by jobs fetch
IsJobsPoll(c) == c.c \in {"scheduleJobsRefresh", "fetchJobs"}

\* the ticks and results in flight that were issued for a tailing target or
\* an auto-refresh target that has since been cleared or replaced
StalePolls ==
  {c \in BagToSet(pending) :
     \/ IsTailPoll(c) /\ c.job # app.tailingJobID
     \/ IsJobsPoll(c) /\ c.run # app.autoRefreshRunID}

\* the call of Update that returned r scheduled no tick and issued no
\* request for the target of the poll c
NothingForTarget(r, c) ==
  \A i \in 1..Len(r.cmds) :
     /\ IsTailPoll(c) =>
          ~(r.cmds[i].c \in {"scheduleLogRefresh", "checkJobStatus", "fetchJobLog"}
              /\ r.cmds[i].job = c.job)
     /\ IsJobsPoll(c) =>
          ~(r.cmds[i].c \in {"scheduleJobsRefresh", "fetchJobs", "fetchRun", "fetchLogs"}
              /\ r.cmds[i].run = c.run)

\* C8: once the tailing target or the auto-refresh target has been cleared
\* or replaced, a tick or result issued for the old target schedules no
\* further tick and issues no further request for it.
C8_StalePollsEnd ==
  \A c \in StalePolls : \A m \in Resolve(c) : NothingForTarget(Update(app, m), c)

\* C8 witness: the log overlay has been left, which cleared the tailing
\* target, while a tick or status check of the job tailed is in flight.
C8_Witness ==
  /\ ~app.logFullScreen
  /\ app.tailingJobID = 0
  /\ \E c \in StalePolls : IsTailPoll(c)

\* the modal mode of highest precedence that is active, "none" when no dialog,
\* form, search overlay, in-log search typing or list-filter typing is active
ModalMode(a) ==
  CASE a.confirmDialog.active -> "confirm"
    [] a.filterOverlay.active -> "filter"
    [] a.searchView.active -> "search"
    [] a.logFullScreen /\ a.logView.searching -> "logsearch"
    [] isListFiltering(a) -> "listfilter"
    [] OTHER -> "none"

\* the controller with the part the mode owns taken from b: what is left to
\* compare is everything the mode must leave alone
ModeOwned(a, b, mode) ==
  CASE mode = "confirm" -> [a EXCEPT !.confirmDialog = b.confirmDialog]
    [] mode = "filter" -> [a EXCEPT !.filterOverlay = b.filterOverlay]
    [] mode = "search" ->
         [a EXCEPT !.searchView = b.searchView, !.status = b.status,
                   !.logView = b.logView, !.logFullScreen = b.logFullScreen,
                   !.cameFromSearch = b.cameFromSearch]
    [] mode = "logsearch" -> [a EXCEPT !.logView = b.logView]
    [] OTHER ->
         [a EXCEPT !.runsView = b.runsView, !.workflowsView = b.workflowsView,
                   !.cacheView = b.cacheView, !.runnersView = b.runnersView]

\* the key that returned r was handled by the mode alone and caused no quit,
\* no tab switch and no pane change
KeyContained(r, mode) ==
  /\ ~r.quit
  /\ r.a.currentView = app.currentView
  /\ r.a.focusedPane = app.focusedPane
  /\ r.a = ModeOwned(app, r.a, mode)

\* the key that returned r opened no overlay
OpensNoOverlay(r) == ActiveOverlays(r.a) \subseteq ActiveOverlays(app)

\* C9 as stated: while a modal mode is active, a key is handled only by the
\* mode of highest precedence and never causes quit, tab switch, pane change
\* or the opening of another overlay.
C9_ModalKeysOpenNothing ==
  ModalMode(app) # "none" =>
    \A k \in AllKeys :
      /\ KeyContained(Update(app, KeyMsg(k)), ModalMode(app))
      /\ OpensNoOverlay(Update(app, KeyMsg(k)))

\* the key that returned r opened the log overlay from a search result
OpensMatch(r, k) ==
  /\ k = "enter"
  /\ app.searchView.active /\ app.searchView.mode = "results"
  /\ ~r.a.searchView.active
  /\ ActiveOverlays(r.a) = (ActiveOverlays(app) \ {"search"}) \cup {"log"}

\* C9: while a modal mode is active, a key is handled only by the mode of
\* highest precedence and never causes quit, tab switch or pane change; it
\* opens no other overlay, except that Enter on a search result closes the
\* search overlay and opens the log overlay on the match.
C9_ModalKeysContained ==
  ModalMode(app) # "none" =>
    \A k \in AllKeys :
      /\ KeyContained(Update(app, KeyMsg(k)), ModalMode(app))
      /\ \/ OpensNoOverlay(Update(app, KeyMsg(k)))
         \/ OpensMatch(Update(app, KeyMsg(k)), k)

\* C9 witness: the search overlay shows a result whose log is loaded, so
\* that Enter opens the log overlay on it.
C9_Witness ==
  /\ ModalMode(app) = "search"
  /\ app.searchView.mode = "results"
  /\ OpensMatch(Update(app, KeyMsg("enter")), "enter")

(***************************************************************************)
(* Errors of the merge.                                                    *)
(***************************************************************************)
\* the attempts of the finished fetch that left no error
Succeeded == {a \in 1..mAttempt : ~results[a].err}

\* the job names the attempts that succeeded hold
SucceededJobs == UNION {DOMAIN results[a].logs : a \in Succeeded}

\* C11: when a non-final attempt failed and the final attempt succeeded with
\* non-empty content, the message returned carries no error and its map holds
\* exactly the jobs of the attempts that succeeded.
C11_NonFinalFailureTolerated ==
  (/\ mergeMsg # NoMsg
   /\ \E a \in 1..(mAttempt - 1) : results[a].err
   /\ ~results[mAttempt].err
   /\ DOMAIN results[mAttempt].logs # {})
    => /\ mergeMsg.err = "nil"
       /\ DOMAIN mergeMsg.logs = SucceededJobs

\* C11 witness: of three attempts the second failed, the first holds one job
\* and the final one another; the merge returned both without an error.
C11_Witness ==
  /\ mAttempt = 3
  /\ mergeMsg # NoMsg
  /\ ~results[1].err /\ DOMAIN results[1].logs = {"build"}
  /\ results[2].err
  /\ ~results[3].err /\ DOMAIN results[3].logs = {"build (arm)"}
  /\ mergeMsg.err = "nil"
  /\ DOMAIN mergeMsg.logs = JobNames

\* C12: the message returned carries an error exactly when the merged map is
\* empty; the error is the one of the final attempt when that attempt failed
\* and the generic one otherwise, so the failure of an attempt is reported
\* only when it is the final attempt and nothing was merged.
C12_ErrorIffEmpty ==
  mergeMsg # NoMsg =>
    /\ (mergeMsg.err # "nil") <=> (DOMAIN merged = {})
    /\ DOMAIN merged = {} =>
         mergeMsg.err = IF results[mAttempt].err THEN "final attempt error"
                        ELSE "no logs available"

\* C12 witness: a non-final attempt failed, the final attempt read an empty
\* archive, and the merge returned the generic error.
C12_Witness ==
  /\ mAttempt >= 2
  /\ mergeMsg # NoMsg
  /\ results[1].err
  /\ ~results[mAttempt].err
  /\ mergeMsg.err = "no logs available"
(***************************************************************************)
(* The bulk delete executor.                                               *)
(***************************************************************************)
FailedIds == {i \in 1..bulk.n : bulk.res[i] = "err"}

SucceededIds == {i \in 1..bulk.n : bulk.res[i] = "ok"}

\* C13: when the executor returns, DeleteRun was invoked exactly once for
\* every id (a failure stops no other worker), the count it reports is the
\* number of deletes that returned no error, the total it reports with an
\* error is the number of ids, and it reports an error exactly when some
\* delete failed; no id is ever deleted twice.
C13_EachOnceCountsExact ==
  /\ \A i \in 1..bulk.n : bulk.calls[i] <= 1
  /\ bulk.msg # NoMsg =>
       /\ \A i \in 1..bulk.n : bulk.calls[i] = 1
       /\ bulk.msg.Action[3] = Cardinality(SucceededIds)
       /\ (bulk.msg.Err # 0) <=> (FailedIds # {})
       /\ bulk.msg.Err # 0 =>
            /\ bulk.msg.Err \in FailedIds
            /\ bulk.msg.Action[5] = bulk.n

\* four ids or more, two of them failed: all but two and an error are reported
C13_Witness ==
  /\ bulk.n >= 4
  /\ bulk.msg # NoMsg
  /\ Cardinality(FailedIds) = 2
  /\ bulk.msg.Action[3] = bulk.n - 2
  /\ bulk.msg.Err # 0

\* the workers whose DeleteRun request was sent and has not returned
InFlightDeletes == {i \in 1..bulk.n : bulk.pc[i] = "call"}

\* C14: at no time are more than 3 delete requests in flight; when every
\* worker is scheduled and every request returns, the executor returns a
\* result (no worker waits for the semaphore for ever), and the result it
\* returned is never replaced by a second one.
C14_AtMostThreeAndTerminates ==
  /\ [](Cardinality(InFlightDeletes) <= SemCap)
  /\ <>(bulk.msg # NoMsg)
  /\ [][bulk.msg # NoMsg => bulk'.msg = bulk.msg]_vars

\* three requests in flight while a fourth worker waits for the semaphore
C14_Witness ==
  /\ Cardinality(InFlightDeletes) = SemCap
  /\ \E i \in 1..bulk.n : bulk.pc[i] = "wait"

\* C15: once the controller has shown the result of a bulk delete in which
\* some delete failed, the status holds the succeeded/total summary of the
\* result and its last error.
C15_StatusHasSummaryAndError ==
  (bulk.status # NoStatus /\ FailedIds # {}) =>
    /\ bulk.status.Action = bulk.msg.Action
    /\ bulk.status.Err = bulk.msg.Err
(***************************************************************************)
(* The confirmation dialog and the commands that change the repository.    *)
(***************************************************************************)
\* every message Update can be called with in the reached state: a key, or
\* the message of a command in flight
Deliverable ==
  {KeyMsg(k) : k \in AllKeys} \cup UNION {Resolve(c) : c \in BagToSet(pending)}

\* key k dismisses the dialog of a: n, N, esc, or enter with "No" selected
Dismisses(a, k) ==
  /\ a.confirmDialog.active
  /\ k \in {"n", "N", "esc"} \/ (k = "enter" /\ ~a.confirmDialog.selected)

\* the result message of a dismissed dialog changes nothing and dispatches
\* nothing, where r is what Update returned for the dismissing key
ResultIsIdle(r) ==
  \A i \in 1..Len(r.cmds) :
    /\ r.cmds[i].c = "confirmResult"
    /\ \A m \in Resolve(r.cmds[i]) :
         /\ Update(r.a, m).a = r.a
         /\ Update(r.a, m).cmds = <<>>
         /\ ~Update(r.a, m).quit

\* the dismissing key that returned r closed the dialog and did nothing else
DismissedCleanly(r) ==
  /\ ~Dispatches(r, {"doAction"})
  /\ ~r.quit
  /\ r.a = [app EXCEPT !.confirmDialog.active = FALSE]
  /\ ResultIsIdle(r)

\* C16: in every reachable state, a call of Update dispatches a rerun, cancel,
\* force-cancel, delete, enable, disable or bulk-delete command only for a
\* confirm.ResultMsg with Confirmed = true; a key that dismisses the dialog
\* (n, N, esc, enter with the default selection) dispatches no such command
\* and changes nothing but the dialog's active flag, and the result message it
\* posts changes nothing.
C16_ActionsOnlyWhenConfirmed ==
  /\ \A m \in Deliverable :
       Dispatches(Update(app, m), {"doAction"}) =>
         m.type = "ConfirmResultMsg" /\ m.Confirmed
  /\ \A k \in AllKeys :
       Dismisses(app, k) => DismissedCleanly(Update(app, KeyMsg(k)))

\* a dialog is open while the confirmed result of an earlier dialog is in
\* flight, and that result dispatches the action
C16_Witness ==
  /\ app.confirmDialog.active
  /\ \E c \in BagToSet(pending) :
       /\ c.c = "confirmResult"
       /\ \E m \in Resolve(c) :
            m.Confirmed /\ Dispatches(Update(app, m), {"doAction"})
(***************************************************************************)
(* The log cache.                                                          *)
(***************************************************************************)
\* the files on disk of entry e
EntryFiles(c, e) == {f \in Existing(c) : f[1] = e}

\* entry e has files and the last modification of every one of them is at
\* or before now - TTL
FilesStale(c, e) ==
  /\ EntryFiles(c, e) # {}
  /\ \A f \in EntryFiles(c, e) : c.files[f].mtime <= c.now - TTL

\* C17: HasRun reports an entry absent whenever its files were last modified
\* at or before now - TTL, and reports it present only when the directory
\* exists and its files are younger than the TTL.
C17_HasRunFollowsFileAge ==
  \A e \in Entries :
    /\ FilesStale(cache, e) => ~HasRun(cache, e)
    /\ HasRun(cache, e) => cache.dirs[e] >= 0 /\ ~FilesStale(cache, e)

\* the files of c older than the TTL at the time of c
OlderThanTTL(c) == {f \in Existing(c) : c.now - c.files[f].mtime > TTL}

\* d is the file left with after the sweep of c: the two-sweep reference.
\* Every file older than the TTL is gone and every file that is left is as it
\* was; when the fresh files are within the cap nothing else is gone;
\* otherwise what is left is within the cap, no file that is gone is newer
\* than a file that is left, and the sweep stopped as soon as the cap was
\* reached (with its newest victim back the total would exceed the cap).
TwoSweep(c, d) ==
  LET old == OlderThanTTL(c)
      fresh == Existing(c) \ old
      gone == Existing(c) \ Existing(d)
      victims == gone \ old
  IN /\ \A f \in FileIds : d.files[f] = c.files[f] \/ (f \in gone /\ d.files[f] = NoFile)
     /\ old \subseteq gone
     /\ TotalSize(c, fresh) <= MaxSize => victims = {}
     /\ TotalSize(c, fresh) > MaxSize =>
          /\ TotalSize(c, fresh \ victims) <= MaxSize
          /\ \A v \in victims : \A k \in fresh \ victims :
               c.files[v].mtime <= c.files[k].mtime
          /\ \E v \in victims :
               /\ \A w \in victims : c.files[w].mtime <= c.files[v].mtime
               /\ TotalSize(c, (fresh \ victims) \cup {v}) > MaxSize

\* C18: a call of Evict while no task writes leaves the cache as the
\* two-sweep reference does: the files older than the TTL are deleted; then,
\* only if the rest exceeds the cap, files are deleted oldest first until the
\* total is at most the cap; no file newer than a retained file is deleted,
\* and nothing is deleted from a fresh cache under the cap.
C18_EvictIsTwoSweep ==
  [][(cache'.evicts = cache.evicts + 1 /\ Writers(cache) = {}) => TwoSweep(cache, cache')]_vars

\* Evict ran with no writer and deleted files in both sweeps
C18_Witness ==
  /\ cache.evicts > 0
  /\ cache.swept.writers = 0
  /\ cache.swept.ttl > 0
  /\ cache.swept.cap > 0

\* a reader is served entry e as a cache hit
Visible(c, e) == HasRun(c, e) /\ DOMAIN GetAllJobLogs(c, e) # {}

\* the job logs of the complete archive
CompleteLogs ==
  [j \in {parseRootLogName(n) : n \in LogNames} |->
     ContentOf(CHOOSE n \in LogNames : parseRootLogName(n) = j)]

\* C19: before any eviction, an entry is visible to readers (HasRun true and
\* GetAllJobLogs not empty) only when a store of the complete archive has
\* succeeded for it, and what it holds then is the complete archive; a task
\* that was served a cache hit was served the complete archive.
C19_VisibleOnlyComplete ==
  cache.evicts = 0 =>
    /\ \A e \in Entries :
         Visible(cache, e) =>
           cache.stored[e] /\ GetAllJobLogs(cache, e) = CompleteLogs
    /\ \A t \in 1..NumTasks :
         cache.tasks[t].hit => cache.tasks[t].logs = CompleteLogs
\* C20: no two background tasks write the same entry directory at the same
\* time: the log fetches that are in flight together store into distinct
\* directories, and no two tasks are inside StoreRunLogs of one entry.
C20_DistinctDirectories ==
  /\ \A c1 \in BagToSet(pending) : \A c2 \in BagToSet(pending) :
       c1 # c2 => FetchTargets(c1) \cap FetchTargets(c2) = {}
  /\ \A t1 \in Writers(cache) : \A t2 \in Writers(cache) :
       t1 # t2 => cache.tasks[t1].e # cache.tasks[t2].e
(***************************************************************************)
(* Reads of the log cache.                                                 *)
(***************************************************************************)
\* entry e is present and fresh for task: HasRun is true, the directory can
\* be read and it holds job logs
PresentFresh(c, task) ==
  /\ HasRun(c, task.e)
  /\ task.readable
  /\ DOMAIN GetAllJobLogs(c, task.e) # {}

Count(cmds, c) == Cardinality({i \in 1..Len(cmds) : cmds[i] = c})

\* r is what Update returned for enter on the selected run of a
OpensRun(a, run, r) ==
  /\ r.a.viewingAttempt = 0
  /\ Count(r.cmds, [Cmd("fetchJobs") EXCEPT !.run = run]) = 1
  /\ Count(r.cmds, [Cmd("fetchLogs") EXCEPT !.run = run]) = 1
  /\ Len(r.cmds) = 2
  /\ r.a.autoRefreshRunID = (IF RunCompleted(run) THEN 0 ELSE run)
  /\ ~r.quit

\* C23: when enter reaches the main switch in the Runs view with the left
\* pane focused and a run selected, viewingAttempt becomes 0, one jobs fetch
\* and one logs fetch for that run are emitted whatever the run's status, and
\* autoRefreshRunID becomes the run's ID if the run is not completed and 0 if
\* it is completed.
C23_EnterOpensRun ==
  (/\ ReachesMain(app, "enter")
   /\ app.currentView = "ViewRuns"
   /\ app.focusedPane = "PaneLeft"
   /\ SelectedRun(app.runsView) # NoRun) =>
    OpensRun(app, SelectedRun(app.runsView), Update(app, KeyMsg("enter")))

\* enter opened the completed run while the polling of another run was
\* registered: both fetches are in flight and the polling target is cleared
C23_Witness ==
  /\ app.focusedPane = "PaneMiddle"
  /\ app.detailsView.run = 2
  /\ RunCompleted(2)
  /\ app.autoRefreshRunID = 0
  /\ app.viewingAttempt = 0
  /\ [Cmd("fetchJobs") EXCEPT !.run = 2] \in BagToSet(pending)
  /\ [Cmd("fetchLogs") EXCEPT !.run = 2] \in BagToSet(pending)
  /\ [Cmd("fetchLogs") EXCEPT !.run = 1] \in BagToSet(pending)

\* r is what Update returned for enter on job of the middle pane of a
OpensJob(a, job, r) ==
  IF ~job.done
    THEN /\ r.a.logFullScreen
         /\ r.a.logView.jobName = job.name
         /\ r.a.logView.content = StepProgress(job)
         /\ r.a.tailingJobID = job.id
         /\ r.a.tailingJobName = job.name
         /\ r.cmds = <<[Cmd("checkJobStatus") EXCEPT !.job = job.id]>>
  ELSE IF findJobLog(a.currentRunLogs, job.name).ok
    THEN /\ r.a.logFullScreen
         /\ r.a.logView.jobName = job.name
         /\ r.a.logView.content = findJobLog(a.currentRunLogs, job.name).content
         /\ r.cmds = <<>>
  ELSE /\ r.a.logFullScreen
       /\ r.a.logView.loading
       /\ r.cmds = <<[Cmd("fetchJobLog") EXCEPT !.job = job.id]>>
       /\ r.a.tailingJobID = a.tailingJobID
       /\ r.a.tailingJobName = a.tailingJobName

CyclesAttempt(a) ==
  /\ ReachesMain(a, "a")
  /\ a.currentView = "ViewRuns"
  /\ ~a.infoFullScreen
  /\ (a.logFullScreen /\ a.viewingJob # NoJob)
       \/ (~a.logFullScreen /\ a.focusedPane = "PaneMiddle")
  /\ a.detailsView.run # NoRun
  /\ RunAttemptOf(a.detailsView.run) > 1

\* r is what Update returned for the attempt key on a showing run
AttemptCycled(a, run, r) ==
  /\ r.a.viewingAttempt = (a.viewingAttempt + 1) % (RunAttemptOf(run) + 1)
  /\ r.a.viewingAttempt \in 0..RunAttemptOf(run)
  /\ Count(r.cmds, [Cmd("fetchJobs") EXCEPT !.run = run, !.att = r.a.viewingAttempt]) = 1
  /\ Count(r.cmds, [Cmd("fetchLogs") EXCEPT !.run = run, !.att = r.a.viewingAttempt]) = 1

\* C25: the attempt key, while a job log or the jobs pane of a run with
\* maxAttempt attempts is shown, sets viewingAttempt to (viewingAttempt + 1)
\* mod (maxAttempt + 1), which is within 0..maxAttempt, and emits a jobs fetch
\* and a logs fetch for the new attempt (the merged fetch when it is 0, the
\* single-attempt fetch otherwise).
C25_AttemptKeyRefetchesBoth ==
  CyclesAttempt(app) =>
    AttemptCycled(app, app.detailsView.run, Update(app, KeyMsg("a")))
(***************************************************************************)
(* Leaving overlays and switching tabs.                                    *)
(***************************************************************************)
\* the exit key reaches the overlay handling of the Runs view of a
ExitReaches(a) == ReachesMain(a, "esc") /\ a.currentView = "ViewRuns"

\* the number of overlay levels open in a: the search overlay, the log
\* overlay, the info overlay
Levels(a) ==
  (IF a.searchView.active THEN 1 ELSE 0) + (IF a.logFullScreen THEN 1 ELSE 0)
    + (IF a.infoFullScreen THEN 1 ELSE 0)

\* a is the controller with an overlay open, r what Update returned for the
\* exit key: the overlay on top is closed, no other, and no job is tailed
ClosedOne(a, r) ==
  /\ a.logFullScreen => ~r.a.logFullScreen /\ r.a.infoFullScreen = a.infoFullScreen
  /\ ~a.logFullScreen => ~r.a.infoFullScreen
  /\ r.a.tailingJobID = 0
  /\ r.a.tailingJobName = ""
  /\ r.a.currentView = a.currentView
  /\ ~r.quit

\* enter on a opens the log of the selected job from the jobs pane
OpensFromJobs(a) ==
  /\ ReachesMain(a, "enter")
  /\ a.currentView = "ViewRuns"
  /\ a.focusedPane = "PaneMiddle"
  /\ ~a.logFullScreen
  /\ ~a.infoFullScreen
  /\ SelectedJob(a.detailsView) # NoJob

\* enter on a opens the log of the selected match from the search results
OpensFromSearch(a) ==
  /\ ~a.confirmDialog.active
  /\ ~a.filterOverlay.active
  /\ a.searchView.active
  /\ a.searchView.mode = "results"
  /\ ~a.logFullScreen
  /\ SelectedMatch(a.searchView) # ""
  /\ findJobLog(a.currentRunLogs, SelectedMatch(a.searchView)).ok

\* the key i on a opens the info overlay
OpensInfo(a) ==
  /\ ReachesMain(a, "i")
  /\ a.currentView = "ViewRuns"
  /\ ~a.logFullScreen
  /\ ~a.infoFullScreen
  /\ IF a.focusedPane = "PaneMiddle" THEN SelectedJob(a.detailsView) # NoJob
     ELSE SelectedRun(a.runsView) # NoRun

\* c is the controller after the exit key on the log opened from the jobs
\* pane of a
BackInJobs(a, c) ==
  /\ ~c.logFullScreen
  /\ ~c.searchView.active
  /\ c.focusedPane = "PaneMiddle"

\* c is the controller after the exit key on the log opened from the search
\* results of a
BackInSearch(a, c) ==
  /\ ~c.logFullScreen
  /\ c.searchView.active
  /\ c.searchView.mode = "results"
  /\ c.focusedPane = a.focusedPane

\* c is the controller after the exit key on the info overlay opened on a
BackFromInfo(a, c) ==
  /\ ~c.infoFullScreen
  /\ c.focusedPane = a.focusedPane

\* C26: the exit key closes exactly one overlay level, sets focusedPane to
\* the pane that was focused when that overlay was opened, and clears the
\* tailing target; a log view entered from a search result returns to the
\* search results, and a log view entered from the jobs pane returns to the
\* jobs pane, after any earlier sequence of overlays and tab switches.
C26_ExitRestores ==
  /\ (ExitReaches(app) /\ (app.logFullScreen \/ app.infoFullScreen)) =>
       ClosedOne(app, Update(app, KeyMsg("esc")))
  /\ OpensFromJobs(app) =>
       BackInJobs(app, Update(Update(app, KeyMsg("enter")).a, KeyMsg("esc")).a)
  /\ OpensFromSearch(app) =>
       BackInSearch(app, Update(Update(app, KeyMsg("enter")).a, KeyMsg("esc")).a)
  /\ OpensInfo(app) =>
       BackFromInfo(app, Update(Update(app, KeyMsg("i")).a, KeyMsg("esc")).a)

\* the tab of a tab-switch key
TabOf(k) ==
  CASE k = "1" -> "ViewRuns"
    [] k = "2" -> "ViewWorkflows"
    [] k = "4" -> "ViewCache"

\* r is what Update returned for the tab-switch key k on a
TabSwitched(a, k, r) ==
  /\ r.a.tailingJobID = 0
  /\ r.a.tailingJobName = ""
  /\ (~a.logFullScreen /\ ~a.infoFullScreen) =>
       /\ r.a.currentView = TabOf(k)
       /\ a.currentView # TabOf(k) => r.a.focusedPane = "PaneLeft"
  /\ (a.logFullScreen \/ a.infoFullScreen) => r.a.currentView = a.currentView

\* C27: a tab-switch key that reaches the main switch always clears the
\* tailing target; it changes the view to the chosen tab and resets
\* focusedPane to Left only if no overlay is open, and leaves the view
\* unchanged when the log or info overlay is open.
C27_TabSwitchRespectsOverlay ==
  \A k \in {"1", "2", "4"} :
    ReachesMain(app, k) => TabSwitched(app, k, Update(app, KeyMsg(k)))
(***************************************************************************)
(* Default routing: the propagation to the sub-views of the Runs view.     *)
(***************************************************************************)
\* a shows the Runs view with no overlay
DefaultRouted(a) == a.currentView = "ViewRuns" /\ ~a.logFullScreen /\ ~a.infoFullScreen

\* a message that is not a key reaches the main switch of a
DataReachesMain(a, msg) ==
  /\ msg.type \notin {"KeyMsg", "ConfirmResultMsg", "FilterResultMsg"}
  /\ ~a.confirmDialog.active
  /\ ~a.filterOverlay.active
  /\ ~a.searchView.active

\* m is the controller after the main switch took the key msg, c the
\* controller Update returned: the sub-view of the focused pane took the key,
\* the other sub-views are as the main switch left them
KeyToFocused(m, msg, c) ==
  /\ c.logView = m.logView
  /\ c.infoView = m.infoView
  /\ m.focusedPane = "PaneLeft" =>
       /\ c.detailsView = m.detailsView
       /\ \/ c.runsView = runsUpdate(m.runsView, msg).m
          \/ msg.key = "esc" /\ c.runsView = NewRunsView
  /\ m.focusedPane = "PaneMiddle" =>
       /\ c.runsView = m.runsView
       /\ c.detailsView = detailsUpdate(m.detailsView, msg)

\* m is the controller after the main switch took msg, which is not a key,
\* c the controller Update returned: every sub-view of the Runs view took it
DataToAll(m, msg, c) ==
  /\ c.runsView = runsUpdate(m.runsView, msg).m
  /\ c.detailsView = detailsUpdate(m.detailsView, msg)
  /\ c.logView = logUpdate(m.logView, msg)

\* r is what the main switch returned for msg, c the controller Update
\* returned
Routed(r, msg, c) ==
  (~r.ret /\ DefaultRouted(r.a)) =>
    IF IsKey(msg) THEN KeyToFocused(r.a, msg, c) ELSE DataToAll(r.a, msg, c)

\* C28: in default routing in the Runs view with no overlay, a key is
\* delivered to the sub-view of the focused pane only (Left: the runs list,
\* Middle: the jobs list) and leaves the other sub-views unchanged, while a
\* message that is not a key is delivered to every sub-view of the Runs
\* view; the key f with the left pane focused on a list of runs puts the runs
\* list into filtering mode and esc leaves that mode.
C28_KeysToFocusedPane ==
  /\ \A k \in AllKeys :
       ReachesMain(app, k) =>
         Routed(KeyMain(app, k), KeyMsg(k), Update(app, KeyMsg(k)).a)
  /\ \A c \in BagToSet(pending) : \A msg \in Resolve(c) :
       DataReachesMain(app, msg) =>
         Routed(MsgMain(app, msg), msg, Update(app, msg).a)
  /\ (/\ ReachesMain(app, "f")
      /\ DefaultRouted(app)
      /\ app.focusedPane = "PaneLeft"
      /\ Len(app.runsView.runs) > 0) =>
       /\ runsIsFiltering(Update(app, KeyMsg("f")).a.runsView)
       /\ ~runsIsFiltering(Update(Update(app, KeyMsg("f")).a, KeyMsg("esc")).a.runsView)

\* the runs list took f and is filtering, the left pane focused, while the
\* jobs list holds the jobs of the run opened before
C28_Witness ==
  /\ DefaultRouted(app)
  /\ app.focusedPane = "PaneLeft"
  /\ runsIsFiltering(app.runsView)
  /\ Len(app.detailsView.jobs) > 1
  /\ app.detailsView.cursor = 0
(***************************************************************************)
(* Fetch results that carry an error.                                      *)
(***************************************************************************)
\* the result messages of the fetches of runs, a page, jobs, logs, a
\* single-job log and a job status
FetchResults ==
  {"RunsLoadedMsg", "RunsPageMsg", "JobsLoadedMsg", "LogsLoadedMsg", "JobLogLoadedMsg",
   "JobTailStatusMsg"}

\* the status lines that report an error
ErrorStatuses ==
  {"Error", "Error loading page", "Error loading jobs", "Error loading logs",
   "Error loading log", "Error watching, retrying..."}

\* msg is the failed result of a fetch and is handled by the main switch of
\* a; a job status is the status of the job that is tailed
FailedFetch(a, msg) ==
  /\ msg.type \in FetchResults
  /\ msg.Err
  /\ DataReachesMain(a, msg)
  /\ msg.type = "JobTailStatusMsg" => a.tailingJobID = msg.JobID

\* what was loaded before: the listed runs, the jobs list, logMap, the log
\* view content, the pagination page and the live targets
Loaded(a) ==
  <<a.runsView.runs, a.detailsView.jobs, a.currentRunLogs, a.logView.content, a.runsPage,
    a.autoRefreshRunID, a.tailingJobID, a.tailingJobName, a.viewingAttempt>>

\* C29: when a fetch result carrying an error is handled (runs, page, jobs,
\* logs, single-job log, job status), the controller records a status message
\* and changes nothing that was loaded before: the listed runs, the jobs
\* list, logMap, the log view content, the pagination page and the live
\* targets are the same as before the event.
C29_ErrorsLeaveStateIntact ==
  \A c \in BagToSet(pending) : \A msg \in Resolve(c) :
    FailedFetch(app, msg) =>
      /\ Update(app, msg).a.status \in ErrorStatuses
      /\ Loaded(Update(app, msg).a) = Loaded(app)
(***************************************************************************)
(* Determinism of the controller step.                                     *)
(***************************************************************************)
\* C30: the controller step is deterministic: two copies of the same session
\* state given the same message return equal new states and equal command
\* lists, also when the log of a job is found by the substring fallback of
\* findJobLog and several keys of logMap match
C30_UpdateDeterministic ==
  (twin.called[1] /\ twin.called[2]) => twin.r[1] = twin.r[2]

(***************************************************************************)
(* The run list: the multi-selection and the cursor across listing loads.  *)
(***************************************************************************)
\* the run IDs the list shows
ListedRuns(m) == {m.runs[i] : i \in 1..Len(m.runs)}

\* msg is a listing that succeeded: a fresh load or a page load
ListingLoad(msg) == msg.type \in {"RunsLoadedMsg", "RunsPageMsg"} /\ ~msg.Err

\* m is the runs list after it took the listing of runs: the runs are
\* listed, nothing is selected and the cursor is on the first item
ListReset(m, runs) == m.runs = runs /\ m.selected = {} /\ m.index = 0

\* C31: after every successful listing load (a fresh load or a page load) the
\* runs list is reset: it shows the runs loaded, the multi-selection is empty
\* and the cursor is on the first item; a listing a dialog, the filter form or
\* the search overlay takes is not loaded and leaves the list as it is; so
\* every selected run ID belongs to the runs listed.
C31_ListingLoadResets ==
  /\ app.runsView.selected \subseteq ListedRuns(app.runsView)
  /\ \A c \in BagToSet(pending) : \A msg \in Resolve(c) :
       ListingLoad(msg) =>
         IF DataReachesMain(app, msg)
           THEN ListReset(Update(app, msg).a.runsView, msg.Runs)
           ELSE Update(app, msg).a.runsView = app.runsView

\* a run is selected that the page in flight does not list, the cursor is
\* off the first item, and the page resets the list
C31_Witness ==
  /\ app.runsView.index > 0
  /\ \E c \in BagToSet(pending) : \E msg \in Resolve(c) :
       /\ ListingLoad(msg)
       /\ DataReachesMain(app, msg)
       /\ ~(app.runsView.selected \subseteq {msg.Runs[i] : i \in 1..Len(msg.Runs)})
       /\ ListReset(Update(app, msg).a.runsView, msg.Runs)

(***************************************************************************)
(* The result of a search.                                                 *)
(***************************************************************************)
\* two characters are the same, or the same but for their case when the
\* query is not case-sensitive
SameRune(a, b, caseSensitive) == a = b \/ (~caseSensitive /\ {a, b} = {"e", "E"})

\* line satisfies the query: the expression matches it, or the pattern is a
\* substring of it, case-insensitive unless CaseSensitive is set
Satisfies(query, line) ==
  IF query.IsRegex
    THEN MatchString(query.Pattern, line, ~query.CaseSensitive)
    ELSE \E off \in 0..(Len(line) - Len(query.Pattern)) :
           \A i \in 1..Len(query.Pattern) :
             SameRune(line[off + i], query.Pattern[i], query.CaseSensitive)

\* the job passes the filters: with FailedOnly and a map of the failed jobs
\* it is one of them (without a map FailedOnly filters nothing), and its
\* name matches JobPattern when there is one
Passes(e, jobName) ==
  /\ (e.query.FailedOnly /\ ~e.failedJobs.isNil) => jobName \in e.failedJobs.jobs
  /\ e.query.JobPattern # "" => (e.query.JobPattern = "arm" /\ jobName = "build (arm)")

\* the matches of the call e: every line that satisfies the query in every
\* job that passes the filters, with its 1-based number
Expected(e) ==
  IF e.query.IsRegex /\ CompileError(e.query.Pattern) THEN {}
  ELSE {m \in [JobName : DOMAIN e.logs,
               Line : 1..(MaxContent + 1),
               Content : Strings(LogChars, MaxContent)] :
          /\ Passes(e, m.JobName)
          /\ m.Line <= Len(Split(e.logs[m.JobName]))
          /\ m.Content = Split(e.logs[m.JobName])[m.Line]
          /\ Satisfies(e.query, m.Content)}

\* the matches of the result that are m
Occurrences(res, m) == Cardinality({i \in 1..Len(res.Matches) : res.Matches[i] = m})

\* the sum of JobCounts
SumCounts(res) == res.JobCounts["build"] + res.JobCounts["build (arm)"]

\* C32: the result SearchWithFilter returns holds exactly one match for
\* every log line that satisfies the query (substring or regular expression,
\* case-insensitive unless CaseSensitive is set) in every job that passes the
\* FailedOnly and JobPattern filters, with its 1-based line number, and no
\* other match; TotalCount is the number of matches and the sum of
\* JobCounts; a regular expression that does not compile gives an empty
\* result.
C32_SearchExact ==
  engine.pc = "done" =>
    /\ \A m \in Expected(engine) : Occurrences(engine.results, m) = 1
    /\ \A i \in 1..Len(engine.results.Matches) : engine.results.Matches[i] \in Expected(engine)
    /\ engine.results.TotalCount = Len(engine.results.Matches)
    /\ engine.results.TotalCount = SumCounts(engine.results)
    /\ \A j \in JobNames :
         engine.results.JobCounts[j] =
           Cardinality({i \in 1..Len(engine.results.Matches) :
                          engine.results.Matches[i].JobName = j})
    /\ MatcherError(engine.query) => engine.results = NewResults

\* a case-insensitive search returned two matches, one in each job, one of
\* them the second line of its log, a line that differs from the pattern in
\* its case
C32_Witness ==
  /\ engine.pc = "done"
  /\ ~engine.query.CaseSensitive
  /\ engine.results.TotalCount = 2
  /\ \E i \in 1..Len(engine.results.Matches) :
       /\ engine.results.Matches[i].Line = 2
       /\ engine.results.Matches[i].Content # engine.query.Pattern
       /\ engine.results.Matches[i].Content = <<"E">>
  /\ engine.results.JobCounts["build"] = 1
  /\ engine.results.JobCounts["build (arm)"] = 1

(***************************************************************************)
(* The sequential bulk delete.                                             *)
(***************************************************************************)
\* the call is between two IDs or has returned
BetweenIds(o) == o.pc \in {"select", "done"}

\* the operations after which the call paused, when k IDs were attempted
PausesFor(k) == [j \in 1..(k \div PauseEvery) |-> j * PauseEvery]

\* C33: BulkDeleteRuns processes the IDs in list order and attempts no ID
\* twice; Completed + Failed is the number of IDs attempted; a failed delete
\* is recorded and the loop goes on; the call has paused after every 10th
\* operation; a call that returns without error attempted every ID once; when
\* the context is cancelled with IDs left, the next look at the context
\* returns the result so far with the context error and attempts no other ID.
C33_SequentialBulk ==
  /\ [](ops.pc # "idle" =>
          /\ \A j \in 1..Len(ops.attempted) : ops.attempted[j] = j
          /\ Len(ops.attempted) <= ops.n
          /\ ops.Completed + ops.Failed = Len(ops.attempted)
          /\ ops.Failed = Len(ops.Errors)
          /\ BetweenIds(ops) => ops.slept = PausesFor(Len(ops.attempted))
          /\ (ops.pc = "done" /\ ops.err = "nil") => Len(ops.attempted) = ops.n
          /\ (ops.pc = "done" /\ ops.err = "ctx") =>
               ops.cancelled /\ Len(ops.attempted) < ops.n)
  /\ [][(ops.pc = "select" /\ ops.cancelled /\ ops.i < ops.n) =>
          /\ ops'.pc = "done"
          /\ ops'.err = "ctx"
          /\ ops'.attempted = ops.attempted
          /\ ops'.Completed = ops.Completed
          /\ ops'.Failed = ops.Failed
          /\ ops'.Errors = ops.Errors]_vars
  /\ [][ops.pc = "done" => ops' = ops]_vars

\* a call cancelled after its 20th operation returned the partial result:
\* it paused twice, went on after a failed delete, and left the last ID
C33_Witness ==
  /\ ops.pc = "done"
  /\ ops.err = "ctx"
  /\ ops.n = 21
  /\ Len(ops.attempted) = 20
  /\ ops.slept = <<10, 20>>
  /\ ops.Errors = <<3>>
  /\ ops.Completed = 19

(***************************************************************************)
(* The log map after the log fetches of successive requests completed.     *)
(***************************************************************************)
\* the (run, attempt) whose logs the controller shows: the run selected
\* into the details pane at viewingAttempt, the latest attempt (the merge)
\* when viewingAttempt is 0
ViewedScope(a) ==
  <<a.detailsView.run,
    IF a.viewingAttempt = 0 THEN RunAttemptOf(a.detailsView.run) ELSE a.viewingAttempt>>

\* C34: for every interleaving of the completions of the log fetches that
\* successive attempt-cycle and run-select actions dispatched, once no log
\* fetch is in flight and the last of them loaded its logs, logMap holds the
\* logs of the selected run at the current viewingAttempt (the merged logs
\* when viewingAttempt is 0), not those of an earlier request that completed
\* last.
C34_LogsOfLatestRequest ==
  (InFlight("fetchLogs") = {} /\ app.status = "Logs loaded" /\ app.detailsView.run # NoRun) =>
    Scopes(app.currentRunLogs) \subseteq {ViewedScope(app)}

(***************************************************************************)
(* The attempt fetches of one merge task.                                  *)
(***************************************************************************)
\* the attempts other than att
OtherAttempts(att) == (1..mAttempt) \ {att}

\* C35: a merge task for a run at attempt A has exactly the A attempt
\* fetches 1..A, one result slot for each; a fetch runs once and writes only
\* its own slot, which is not written again; the task posts one LogsLoaded
\* result, only after all A fetches have finished, and does post it when
\* every fetch is scheduled and returns; for every interleaving of the fetches.
C35_MergeFetches ==
  /\ [](DOMAIN fetchPc = 1..mAttempt /\ DOMAIN results = 1..mAttempt)
  /\ [][\A att \in 1..mAttempt :
          /\ results'[att] # results[att] =>
               /\ fetchPc[att] = "run"
               /\ fetchPc'[att] = "done"
               /\ results'[att].att = att
               /\ \A o \in OtherAttempts(att) :
                    results'[o] = results[o] /\ fetchPc'[o] = fetchPc[o]
          /\ fetchPc[att] = "done" =>
               fetchPc'[att] = "done" /\ results'[att] = results[att]]_vars
  /\ [][mergeMsg' # mergeMsg =>
          /\ mergeMsg = NoMsg
          /\ mergeMsg'.type = "LogsLoadedMsg"
          /\ \A att \in 1..mAttempt : fetchPc[att] = "done"]_vars
  /\ <>(mergeMsg # NoMsg)

\* the task of a run at attempt 3 posted its result after its three
\* fetches, each of which left its result in its own slot
C35_Witness ==
  /\ mAttempt = 3
  /\ mergeMsg # NoMsg
  /\ \A att \in 1..3 : fetchPc[att] = "done" /\ results[att].att = att
  /\ results[1].err /\ ~results[2].err /\ ~results[3].err

(***************************************************************************)
(* The poll coordinators: one chain of ticks and requests each.            *)
(***************************************************************************)
\* the commands of the kinds in flight, each counted as often as it is in
\* flight, that satisfy P
RECURSIVE CountIn(_, _)
CountIn(S, p) ==
  IF S = {} THEN 0
  ELSE LET c == CHOOSE x \in S : TRUE IN CopiesIn(c, p) + CountIn(S \ {c}, p)

\* the ticks and refresh requests of the run-list refresher in flight
RunListPolls ==
  CountIn({c \in BagToSet(pending) : c.c \in {"scheduleRunsRefresh", "refreshCurrentRuns"}},
          pending)

\* the ticks and jobs requests of the jobs auto-refresh of run in flight
JobsPolls(run) ==
  CountIn({c \in BagToSet(pending) : IsJobsPoll(c) /\ c.run = run}, pending)

\* the ticks and status requests of the tailer of job in flight
TailPolls(job) ==
  CountIn({c \in BagToSet(pending) : IsTailPoll(c) /\ c.job = job}, pending)

\* C36: for each poll coordinator (the run-list refresher, the jobs
\* auto-refresh of a run, the tailer of a job) at most one tick or request of
\* that coordinator is pending at any time, for every sequence of key events
\* and result arrivals.
C36_OnePollChain ==
  /\ RunListPolls <= 1
  /\ \A c \in BagToSet(pending) : IsJobsPoll(c) => JobsPolls(c.run) <= 1
  /\ \A c \in BagToSet(pending) : IsTailPoll(c) => TailPolls(c.job) <= 1


(***************************************************************************)
(* The target of a confirmed dialog.                                       *)
(***************************************************************************)
\* the item a dialog opened on a by action is about: the list item under
\* the cursor of the tab the dialog is opened on
TargetAtOpen(a, action) ==
  CASE action = "bulk-delete-runs" -> SelectedItem(a.workflowsView)
    [] action = "delete-cache-entry" -> SelectedItem(a.cacheView)
    [] OTHER -> 0

\* the do* command a confirmation result led to acts on target
ActsOn(cmds, action, target) ==
  /\ Len(cmds) = 1
  /\ cmds[1] = doAction(action, target)

\* the keys that open a dialog on a list item
OpenKeys == {"d", "x"}

\* the messages that can come between the confirming key and its result
Between(p) ==
  {KeyMsg(k) : k \in TargetKeys} \cup UNION {Resolve(c) : c \in BagToSet(p)}

\* the state after the dialog opened on a was confirmed with y
ConfirmedFrom(a, k) == Update(Update(a, KeyMsg(k)).a, KeyMsg("y"))

\* a dialog for one list item opens on a with key k
OpensItemDialog(a, k) ==
  /\ ~a.confirmDialog.active
  /\ Update(a, KeyMsg(k)).a.confirmDialog.active
  /\ Update(a, KeyMsg(k)).a.confirmDialog.action \in {"bulk-delete-runs", "delete-cache-entry"}

\* C37: when a dialog for bulk-delete-runs or delete-cache-entry is opened,
\* confirmed with y, and one more message (a key or the result of a command
\* in flight) is handled before the confirmation result, the command the
\* result dispatches acts on the item that was under the cursor when the
\* dialog was opened.
C37_TargetAtOpen ==
  \A k \in OpenKeys :
    OpensItemDialog(app, k) =>
      \A msg \in Between(pending) :
        \A res \in Resolve(ConfirmedFrom(app, k).cmds[1]) :
          ActsOn(Update(Update(ConfirmedFrom(app, k).a, msg).a, res).cmds,
                 Update(app, KeyMsg(k)).a.confirmDialog.action,
                 TargetAtOpen(app, Update(app, KeyMsg(k)).a.confirmDialog.action))

(***************************************************************************)
(* The info overlay and the auto-refresh target.                           *)
(***************************************************************************)
\* the opening of the overlay on a registers the auto-refresh target
StartedByOpening(a) ==
  a.autoRefreshRunID = 0 /\ Update(a, KeyMsg("i")).a.autoRefreshRunID # 0

\* the state after the overlay opened on a is closed with esc
InfoClosed(a) == Update(Update(a, KeyMsg("i")).a, KeyMsg("esc")).a

\* C38: when the info overlay is opened and then closed with esc, the
\* closing clears autoRefreshRunID if and only if that opening registered
\* it; a target that was registered before the opening, by selecting a
\* run, is still registered after the closing.
C38_InfoCloseClearsOwnRefresh ==
  OpensInfo(app) =>
    /\ ~InfoClosed(app).infoFullScreen
    /\ StartedByOpening(app) => InfoClosed(app).autoRefreshRunID = 0
    /\ ~StartedByOpening(app) => InfoClosed(app).autoRefreshRunID = app.autoRefreshRunID

(***************************************************************************)
(* The loading flag of the run list.                                       *)
(***************************************************************************)
\* the run-listing fetches whose result was not delivered yet
ListingsInFlight == InFlight("fetchRuns") \cup InFlight("fetchRunsPage")

\* C39: once the result of every dispatched run-listing fetch has been
\* delivered to the controller, runsLoading is false, whatever overlay was
\* active when the result was delivered.
C39_RunsLoadingNotStuck == ListingsInFlight = {} => ~app.runsLoading

(***************************************************************************)
(* The loading state of the log view and the single-job fetch.             *)
(***************************************************************************)
\* the single-job log fetches in flight for the job the log overlay shows
ViewedJobFetches ==
  {c \in InFlight("fetchJobLog") :
     app.logFullScreen /\ app.viewingJob # NoJob /\ c.job = app.viewingJob.id}

\* C40: after the result of a single-job log fetch for the viewed job has
\* been processed, with content or with an error, the log view is not in
\* its loading state.
C40_JobLogEndsLoading ==
  \A c \in ViewedJobFetches :
    \A msg \in Resolve(c) : ~Update(app, msg).a.logView.loading
====
